---- MODULE Spec2Model ----
(***************************************************************************)
(* Model of the batch coordinator and the subprocess supervision of        *)
(* video_encoder.py: VideoEncoder.encode_batch, encode_single_file,        *)
(* _encode_with_progress (with its parse_progress reader thread) and the   *)
(* cancel listener thread of _start_cancel_listener.                       *)
(*                                                                         *)
(* The external encoder process, the file system and the key press are the *)
(* environment: they act nondeterministically.  Jobs are numbered 1..n in  *)
(* batch order; the output path of a job is distinct from every source     *)
(* path (get_output_filename appends "_encoded" to the stem, and discovery *)
(* skips such names).                                                      *)
(***************************************************************************)
EXTENDS Integers, Sequences, FiniteSets, TLC

\* ---------------------------------------------------------------- bounds
MaxJobs == 2        \* longest batch explored
MaxUpdates == 1     \* status lines per job that yield a progress value
MaxSide == 2140     \* longest side, in pixels, of the sources explored
MaxLines == 3       \* longest status stream explored, in lines
MaxTicks == 5       \* clock ticks of one supervised encode
MaxStatusLines == 3 \* status lines with an elapsed-time marker per encode
MaxGpus == 2        \* longest list of detected GPUs explored
MaxBatches == 2     \* encode_batch calls on one encoder
SliverLong == 10000 \* longer side of the very wide and very tall sources
SliverShort == 12   \* their shorter side goes up to this

\* ------------------------------------------------------------ value sets
NoFile == [exists |-> FALSE, size |-> 0, video |-> FALSE]

File(s, v) == [exists |-> TRUE, size |-> s, video |-> v]

\* What the encoder may leave at the output path: nothing, a zero-length
\* file, or a file of some size that does or does not hold a video stream.
OutSizes == {1, 2}

OutFiles == {NoFile, File(0, FALSE), File(1, FALSE)} \cup {File(s, TRUE) : s \in OutSizes}

\* Durations of a job in seconds; 0 stands for "unknown" (None).
Durations == {0, 2}

\* Elapsed seconds carried by a status line (time=HH:MM:SS).
ElapsedMarks == {1, 3}

NoResult == [success |-> FALSE, error |-> "unset", encoded_size_mb |-> 0]

Min(a, b) == IF a < b THEN a ELSE b

RECURSIVE SumTo(_, _)
SumTo(f, k) == IF k = 0 THEN 0 ELSE f[k] + SumTo(f, k - 1)

\* VideoFile.size_mb of job j (a fixed input: job j is j units large).
size_mb(j) == j

VARIABLES
    n,                  \* len(video_files)
    delete_originals,   \* argument of encode_batch
    pc,                 \* position of the main thread in encode_batch
    i,                  \* loop index of encode_batch (1-based)
    cancel_event,       \* self._cancel_event
    listener,           \* the cancel listener thread
    processing_stats,   \* self.processing_stats
    srcExists,          \* file system: does the source of job j exist
    outFile,            \* file system: what is at the output path of job j
    result,             \* the result dict of the current job
    proc,               \* the encoder process of the current job
    progress_queue,     \* progress_queue of _encode_with_progress
    reader,             \* the parse_progress thread
    stop_event,         \* stop_event of _encode_with_progress
    progress_callback,  \* self.progress_callback is set
    duration,           \* duration used for the percentage (0: unknown)
    last_progress,      \* last_progress of the supervision loop
    updates,            \* progress values the reader has produced
    idle_tick,          \* parity of the queue-wait windows that timed out
    sink,               \* last event the progress display received
    started,            \* history: start_file_processing calls per job
    completed,          \* history: complete_file_processing calls per job
    spawned,            \* history: encoder processes spawned per job
    alive,              \* history: jobs whose encoder process is alive
    results,            \* history: results produced per job
    counted,            \* history: counter increments per job
    out_seen,           \* history: output file when the job was decided
    cleanup_failed,     \* history: os.remove of the output raised
    cancel_reads,       \* history: where _cancel_event.is_set() was read
    cancelAt,           \* history: where the batch was when 'q' was pressed
    target_preset,      \* ResolutionHandler.target_preset
    current_resolution, \* the resolution probed from the source
    res_info,           \* what get_resolution_info returned for it
    config,             \* EncodingConfigManager.config
    params,             \* the last call of generate_ffmpeg_params and its outcome
    last_value_arg,     \* history: the value given to the last set_crf/set_vbr call
    additional_params,  \* EncodingConfig.additional_params
    built,              \* the last build of generate_ffmpeg_params: arguments and result
    prev_built,         \* history: the build before it
    video_files,        \* self.video_files: the jobs discovery found
    cleaned,            \* history: the outputs cleanup_failed_files removed
    session_stats,      \* ProgressDisplay.session_stats
    display_pc,         \* position of the main thread in complete_file_processing
    display_call,       \* the arguments of that call
    refresh_pc,         \* position of the display update thread
    frame,              \* what the display update thread has read for its tables
    reported,           \* history: the arguments of the complete_file_processing calls
    probe_op,           \* the probing operation that is running, and its file
    attempt,            \* attempt of its retry loop
    probe_pc,           \* position in the retry loop
    is_valid,           \* VideoFile.is_valid of file j, once it was probed
    resolution_info,    \* outcome of the resolution lookup of job j
    probe_log,          \* history: the attempts and sleeps of the running operation
    stderr_lines,       \* the lines the encoder wrote to its status stream
    consumed,           \* how many of them parse_progress has read
    encode_path,        \* "run" (no callback) or "progress" (_encode_with_progress)
    error_reason,       \* what the raised exception carries as the reason
    now,                \* time.time(), in ms since the reader thread started
    last_update_time,   \* last_update_time of parse_progress
    lines_read,         \* status lines with a marker that parse_progress has read
    parsed,             \* history: the elapsed times it parsed from them
    put_times,          \* history: when it queued a progress value
    emitted,            \* history: the values given to the display and the callback
    gpus,               \* HardwareDetector.gpus
    recommended_encoder, \* what get_recommended_encoder returned
    batches,            \* encode_batch calls made on the one VideoEncoder
    batch_pc,           \* position of the running call
    batch_i,            \* its loop index
    batch_stats,        \* self.processing_stats as that call keeps it
    batch_cancel_event, \* self._cancel_event across the calls
    progress_display,   \* the encoder's ProgressDisplay across the calls
    final_summary       \* what show_final_summary last showed

batchVars == <<n, delete_originals, pc, i, processing_stats, result, progress_callback>>
cancelVars == <<cancel_event, listener, cancel_reads, cancelAt>>
fsVars == <<srcExists, outFile>>
procVars == <<proc, progress_queue, reader, stop_event, duration, last_progress, updates, idle_tick>>
histVars == <<started, completed, spawned, alive, results, counted, out_seen, cleanup_failed>>

resVars == <<target_preset, current_resolution, res_info>>

\* The policies a batch reads and never writes.
cfgVars == <<config, params, last_value_arg>>

bagVars == <<additional_params, built, prev_built>>

cleanVars == <<video_files, cleaned>>

dispVars == <<session_stats, display_pc, display_call, refresh_pc, frame, reported>>

probeVars == <<probe_op, attempt, probe_pc, is_valid, resolution_info, probe_log>>

reasonVars == <<stderr_lines, consumed, encode_path, error_reason>>

\* What the batch engine itself reads and writes.
engineVars == <<batchVars, cancelVars, fsVars, procVars, histVars, sink>>

sideVars == <<resVars, cfgVars, bagVars, cleanVars, dispVars, probeVars>>

throttleVars == <<now, last_update_time, lines_read, parsed, put_times, emitted>>

hwVars == <<gpus, recommended_encoder>>

sessionVars == <<batches, batch_pc, batch_i, batch_stats, batch_cancel_event,
                 progress_display, final_summary>>

laterVars == <<hwVars, sessionVars>>

extraVars == <<reasonVars, throttleVars, laterVars>>

policyVars == <<sideVars, extraVars>>

vars == <<batchVars, cancelVars, fsVars, procVars, histVars, sink, policyVars>>

Jobs == 1..n

\* ---------------------------------------------------------------- Init
\* No resolution has been looked at yet.
NoResInfo == [valid |-> FALSE, raised |-> FALSE, needs_resize |-> FALSE,
              target |-> [width |-> 0, height |-> 0],
              scale_filter |-> [set |-> FALSE, width |-> 0, height |-> 0]]

\* Float values (CRF, bitrate multiplier) are held in hundredths.
Hundred == 100

\* EncodingConfigManager.__init__: CRF 23, libx265, H.265, no hardware.
DefaultConfig ==
    [method |-> "CRF", value |-> 23 * Hundred, video_codec |-> "libx265",
     codec_type |-> "H265", hw_accel |-> "none"]

NoBitrate == [kind |-> "none", v |-> 0]

\* generate_ffmpeg_params has not been called.
NoParams ==
    [status |-> "none", error |-> "none", vcodec |-> "none", crf |-> -1, b_v |-> -1,
     method |-> "none", value |-> 0, original_bitrate |-> NoBitrate]

\* The encoding policy of an encoder built where no usable GPU was found.
CfgIdle ==
    /\ config = DefaultConfig
    /\ params = NoParams
    /\ last_value_arg = 23 * Hundred

\* The resolution policy as VideoEncoder.__init__ leaves it:
\* ResolutionHandler() with its default preset.
ResIdle ==
    /\ target_preset = "FHD"
    /\ current_resolution = [width |-> 0, height |-> 0]
    /\ res_info = NoResInfo

\* An empty dict.
EmptyDict == [k \in {} |-> ""]

\* generate_ffmpeg_params has not been called.
NoBuild ==
    [status |-> "none", config |-> DefaultConfig, additional_params |-> EmptyDict,
     original_bitrate |-> NoBitrate, scale_filter |-> "none",
     bundle |-> EmptyDict, video_params |-> EmptyDict, global_args |-> <<>>]

\* EncodingConfig.__post_init__: additional_params is {}; nothing built.
BagIdle ==
    /\ additional_params = EmptyDict
    /\ built = NoBuild
    /\ prev_built = NoBuild

\* Nothing has been cleaned up.  (main.py gives encode_batch the list that
\* discover_video_files stored in self.video_files.)
CleanIdle ==
    /\ video_files = 1..n
    /\ cleaned = {}

\* SessionStats(): every counter and total is 0.
NoSessionStats ==
    [total_files |-> 0, completed_files |-> 0, failed_files |-> 0,
     total_original_size_mb |-> 0, total_encoded_size_mb |-> 0]

NoCall == [success |-> FALSE, original_size_mb |-> 0, encoded_size_mb |-> 0]

NoFrame == [completed |-> 0, failed |-> 0, total_original |-> 0, total_encoded |-> 0]

\* ProgressDisplay.__init__: no session, no update thread.
DispIdle ==
    /\ session_stats = NoSessionStats
    /\ display_pc = "idle"
    /\ display_call = NoCall
    /\ refresh_pc = "none"
    /\ frame = NoFrame
    /\ reported = <<>>

NoProbe == [name |-> "none", file |-> 0]

\* No file has been probed and no resolution looked up.
ProbeIdle ==
    /\ probe_op = NoProbe
    /\ attempt = 0
    /\ probe_pc = "idle"
    /\ is_valid = [j \in 1..n |-> "unknown"]
    /\ resolution_info = [j \in 1..n |-> "none"]
    /\ probe_log = <<>>

NoReason == [kind |-> "none", first |-> 0, last |-> 0, ellipsis |-> FALSE]

\* No encoder has failed.
ReasonIdle ==
    /\ stderr_lines = <<>>
    /\ consumed = 0
    /\ encode_path = "none"
    /\ error_reason = NoReason

\* No encode is being supervised.
ThrottleIdle ==
    /\ now = 0
    /\ last_update_time = 0
    /\ lines_read = 0
    /\ parsed = {}
    /\ put_times = <<>>
    /\ emitted = {}

NoRecommendations == [hw_accel |-> "none", video_codec |-> "none"]

\* No hardware has been looked at.
HwIdle ==
    /\ gpus = <<>>
    /\ recommended_encoder = NoRecommendations

NoSummary == [shown |-> FALSE, cancelled |-> FALSE, total_files |-> 0,
              completed_files |-> 0, failed_files |-> 0]

\* VideoEncoder.__init__ and ProgressDisplay.__init__: no batch was run.
SessionIdle ==
    /\ batches = 0
    /\ batch_pc = "idle"
    /\ batch_i = 0
    /\ batch_stats = [total_files |-> 0, processed_files |-> 0,
                      failed_files |-> 0, cancelled |-> FALSE]
    /\ batch_cancel_event = FALSE
    /\ progress_display = [total_files |-> 0, completed_files |-> 0,
                           failed_files |-> 0, cancel_scheduled |-> FALSE]
    /\ final_summary = NoSummary

LaterIdle == HwIdle /\ SessionIdle

ExtraIdle == ReasonIdle /\ ThrottleIdle /\ LaterIdle

PolicyInit ==
    ResIdle /\ CfgIdle /\ BagIdle /\ CleanIdle /\ DispIdle /\ ProbeIdle /\ ExtraIdle

\* The engine's own state after VideoEncoder.__init__, and the batch chosen.
BatchInit ==
    /\ n \in 1..MaxJobs
    /\ delete_originals \in BOOLEAN
    /\ pc = "idle"
    /\ i = 0
    /\ cancel_event = FALSE
    /\ listener = "none"
    /\ processing_stats = [total_files |-> 0, processed_files |-> 0, failed_files |-> 0,
                           total_original_size |-> 0, total_encoded_size |-> 0,
                           failed_file_paths |-> <<>>, cancelled |-> FALSE]
    /\ srcExists \in [1..n -> BOOLEAN]
    /\ outFile \in {[j \in 1..n |-> f] : f \in {NoFile, File(1, TRUE)}}
    /\ result = NoResult
    /\ proc = "none"
    /\ progress_queue = <<>>
    /\ reader = "idle"
    /\ stop_event = FALSE
    /\ progress_callback = FALSE
    /\ duration = 0
    /\ last_progress = 0
    /\ updates = 0
    /\ idle_tick = FALSE
    /\ sink = <<"none", 0>>
    /\ started = [j \in 1..n |-> 0]
    /\ completed = [j \in 1..n |-> 0]
    /\ spawned = [j \in 1..n |-> 0]
    /\ alive = {}
    /\ results = [j \in 1..n |-> 0]
    /\ counted = [j \in 1..n |-> 0]
    /\ out_seen = NoFile
    /\ cleanup_failed = FALSE
    /\ cancel_reads = {}
    /\ cancelAt = [phase |-> "never", k |-> 0]

\* VideoEncoder.__init__ followed by the choice of the batch.
Init == BatchInit /\ PolicyInit

\* ------------------------------------------------------ cancel listener
\* Where the batch loop is, seen from the key press.
CancelPhase ==
    IF pc = "loop_top" THEN "boundary"
    ELSE IF pc = "start" THEN "window"
    ELSE IF pc = "finally" THEN "after_loop"
    ELSE IF proc = "running" THEN "encoding"
    ELSE "inflight"

\* _listen_for_cancel: 'q' is read while the listener runs; the flag is set
\* and the listener leaves its loop.
ListenForCancel ==
    /\ listener = "listening"
    /\ cancel_event' = TRUE
    /\ listener' = "done"
    /\ cancelAt' = [phase |-> CancelPhase, k |-> SumTo(completed, n)]
    /\ UNCHANGED <<policyVars, batchVars, cancel_reads, fsVars, procVars, histVars, sink>>

\* ------------------------------------------------------------ encode_batch
\* encode_batch up to the loop: initialize_session, reset of the stats,
\* _start_cancel_listener (which clears the flag).
EncodeBatchInit ==
    /\ pc = "idle"
    /\ processing_stats' = [total_files |-> n, processed_files |-> 0, failed_files |-> 0,
                            total_original_size |-> SumTo([j \in 1..n |-> size_mb(j)], n),
                            total_encoded_size |-> 0,
                            failed_file_paths |-> <<>>, cancelled |-> FALSE]
    /\ cancel_event' = FALSE
    /\ listener' = "listening"
    /\ i' = 1
    /\ pc' = "loop_top"
    /\ UNCHANGED <<policyVars, n, delete_originals, result, progress_callback, cancel_reads, cancelAt,
                   fsVars, procVars, histVars, sink>>

\* Variant of BatchLoopCheck that never looks at the flag.
BatchLoopCheckIgnoresCancel ==
    /\ pc = "loop_top"
    /\ pc' = IF i > n THEN "finally" ELSE "start"
    /\ UNCHANGED <<policyVars, n, delete_originals, i, processing_stats, result, progress_callback,
                   cancelVars, fsVars, procVars, histVars, sink>>

\* Top of the for loop: the loop ends when the list is exhausted; otherwise
\* the flag is read and the loop breaks if it is set.
BatchLoopCheck ==
    /\ pc = "loop_top"
    /\ IF i > n
         THEN /\ pc' = "finally"
              /\ UNCHANGED cancel_reads
         ELSE /\ cancel_reads' = cancel_reads \cup {"loop_top"}
              /\ pc' = IF cancel_event THEN "finally" ELSE "start"
    /\ UNCHANGED <<policyVars, n, delete_originals, i, processing_stats, result, progress_callback,
                   cancel_event, listener, cancelAt, fsVars, procVars, histVars, sink>>

\* The result the batch loop builds when an exception reaches it, or the
\* one encode_single_file returns from its own handler.
Failure(err) == [success |-> FALSE, error |-> err, encoded_size_mb |-> 0]

\* start_file_processing, then the callback is installed.  If the display
\* raises, the loop's handler builds a failed result and the encoder is
\* not run; the finally clause clears the callback.
StartFileProcessing ==
    /\ pc = "start"
    /\ started' = [started EXCEPT ![i] = @ + 1]
    /\ sink' = <<"start", i>>
    /\ \/ /\ progress_callback' = TRUE
          /\ pc' = "prepare"
          /\ UNCHANGED <<result, results>>
       \/ /\ result' = Failure("display")
          /\ results' = [results EXCEPT ![i] = @ + 1]
          /\ progress_callback' = FALSE
          /\ pc' = "stats"
    /\ UNCHANGED <<policyVars, n, delete_originals, i, processing_stats, cancelVars, fsVars, procVars,
                   completed, spawned, alive, counted, out_seen, cleanup_failed>>

\* ------------------------------------------------------ encode_single_file
\* os.remove(path) on a file f: the file is gone, or the call raised and
\* the file is still there.  Nothing is removed where nothing exists.
AfterRemove(f) == IF f.exists THEN {NoFile, f} ELSE {f}

\* Variant of FailJob that leaves the output file where it is.
FailJobKeepsOutput(err, f) ==
    /\ outFile' = [outFile EXCEPT ![i] = f]
    /\ cleanup_failed' = FALSE
    /\ out_seen' = f
    /\ result' = Failure(err)
    /\ results' = [results EXCEPT ![i] = @ + 1]
    /\ progress_callback' = FALSE
    /\ pc' = "stats"

\* Variant of FailJob in which the exception is raised again and leaves
\* the batch loop.
FailJobPropagates(err, f) ==
    \E g \in AfterRemove(f) :
        /\ outFile' = [outFile EXCEPT ![i] = g]
        /\ cleanup_failed' = g.exists
        /\ out_seen' = f
        /\ result' = Failure(err)
        /\ results' = [results EXCEPT ![i] = @ + 1]
        /\ progress_callback' = FALSE
        /\ pc' = "finally"

\* Variant of FailJob that runs the encoder once more after a non-zero
\* exit code before it gives the job up.
FailJobRetriesEncode(err, f) ==
    \E g \in AfterRemove(f) :
        /\ outFile' = [outFile EXCEPT ![i] = g]
        /\ cleanup_failed' = g.exists
        /\ out_seen' = f
        /\ IF err = "encode_failed" /\ spawned[i] < 2
             THEN /\ result' = NoResult
                  /\ pc' = "spawn"
                  /\ UNCHANGED <<results, progress_callback>>
             ELSE /\ result' = Failure(err)
                  /\ results' = [results EXCEPT ![i] = @ + 1]
                  /\ progress_callback' = FALSE
                  /\ pc' = "stats"

\* The handler of encode_single_file (except Exception): the error is put
\* in the result, the output file is removed if it exists (a failing
\* removal is only reported), the result is returned, and the finally
\* clause of the batch loop clears the callback.  f is what the output
\* path holds when the exception is raised.
FailJob(err, f) ==
    \E g \in AfterRemove(f) :
        /\ outFile' = [outFile EXCEPT ![i] = g]
        /\ cleanup_failed' = g.exists
        /\ out_seen' = f
        /\ result' = Failure(err)
        /\ results' = [results EXCEPT ![i] = @ + 1]
        /\ progress_callback' = FALSE
        /\ pc' = "stats"

\* Reasons for which encode_single_file raises before the encoder is
\* launched: the descriptor carries an error, the resolution is not found
\* after the retries, generate_ffmpeg_params raises, the command cannot
\* be built.
PreLaunchErrors == {"invalid_video", "resolution", "params", "build"}

\* encode_single_file up to the launch.
EncodeSingleFilePrepare ==
    /\ pc = "prepare"
    /\ IF ~srcExists[i]
         THEN FailJob("input_missing", outFile[i])
         ELSE \/ /\ pc' = "spawn"
                 /\ result' = NoResult
                 /\ cleanup_failed' = FALSE
                 /\ UNCHANGED <<outFile, out_seen, results, progress_callback>>
              \/ \E err \in PreLaunchErrors : FailJob(err, outFile[i])
    /\ UNCHANGED <<policyVars, n, delete_originals, i, processing_stats, cancelVars, srcExists, procVars,
                   started, completed, spawned, alive, counted, sink>>

\* _encode_with_progress: subprocess.Popen, the duration used for the
\* percentage, and the start of the parse_progress thread.  Popen may
\* raise ("Failed to start FFmpeg process").
Popen ==
    /\ pc = "spawn"
    /\ \/ /\ FailJob("launch", outFile[i])
          /\ UNCHANGED <<procVars, spawned, alive>>
       \/ /\ proc' = "running"
          /\ spawned' = [spawned EXCEPT ![i] = @ + 1]
          /\ alive' = alive \cup {i}
          /\ duration' \in Durations
          /\ progress_queue' = <<>>
          /\ stop_event' = FALSE
          /\ reader' = "running"
          /\ last_progress' = 0
          /\ updates' = 0
          /\ idle_tick' = FALSE
          /\ pc' = "supervise"
          /\ UNCHANGED <<outFile, out_seen, cleanup_failed, result, results, progress_callback>>
    /\ UNCHANGED <<policyVars, n, delete_originals, i, processing_stats, cancelVars, srcExists,
                   started, completed, counted, sink>>

\* ------------------------------------------------------ the encoder process
\* The encoder exits on its own with a zero or a non-zero exit code.
\* Nothing forces it to exit.  What it wrote at the output path while it
\* ran is first looked at by the engine when the supervision is left, and
\* that is where the model draws it (from OutFiles, whatever the exit code).
ProcessExit ==
    /\ proc = "running"
    /\ proc' \in {"exit0", "exit1"}
    /\ alive' = alive \ {i}
    /\ UNCHANGED <<policyVars, batchVars, cancelVars, fsVars, progress_queue, reader, stop_event,
                   duration, last_progress, updates, idle_tick, started, completed,
                   spawned, results, counted, out_seen, cleanup_failed, sink>>

\* ------------------------------------------------------ parse_progress
\* What parse_progress puts in the queue: a number, ('error', ...) or 'done'.
Msg(kind, v) == [kind |-> kind, v |-> v]

\* min(100.0, current_time_seconds / duration * 100.0)
ProgressPercent(elapsed, dur) == Min(100, (elapsed * 100) \div dur)

\* A status line with an elapsed-time marker was read outside the throttle
\* window: a percentage is queued, or -1 when the duration is unknown.
ParseProgressPut ==
    /\ reader = "running"
    /\ proc = "running"
    /\ ~stop_event
    /\ updates < MaxUpdates
    /\ \E e \in ElapsedMarks :
          progress_queue' = Append(progress_queue,
                                   Msg("progress", IF duration > 0
                                                     THEN ProgressPercent(e, duration)
                                                     ELSE -1))
    /\ updates' = updates + 1
    /\ UNCHANGED <<policyVars, batchVars, cancelVars, fsVars, proc, reader, stop_event, duration,
                   last_progress, idle_tick, histVars, sink>>

\* An exception inside the read loop: ('error', ...) is queued, the loop
\* is left and the finally clause queues 'done'.
ParseProgressError ==
    /\ reader = "running"
    /\ ~stop_event
    /\ progress_queue' = progress_queue \o <<Msg("error", 0), Msg("done", 0)>>
    /\ reader' = "done"
    /\ UNCHANGED <<policyVars, batchVars, cancelVars, fsVars, proc, stop_event, duration,
                   last_progress, updates, idle_tick, histVars, sink>>

\* A variant of the reader that leaves its loop, and queues 'done', when
\* the status stream has nothing more to read, whether or not the process
\* has exited.
ParseProgressDoneAtEof ==
    /\ reader = "running"
    /\ progress_queue' = Append(progress_queue, Msg("done", 0))
    /\ reader' = "done"
    /\ UNCHANGED <<policyVars, batchVars, cancelVars, fsVars, proc, stop_event, duration,
                   last_progress, updates, idle_tick, histVars, sink>>

\* The loop condition fails (stop_event set or the process has exited):
\* the finally clause queues 'done'.
ParseProgressDone ==
    /\ reader = "running"
    /\ stop_event \/ proc # "running"
    /\ progress_queue' = Append(progress_queue, Msg("done", 0))
    /\ reader' = "done"
    /\ UNCHANGED <<policyVars, batchVars, cancelVars, fsVars, proc, stop_event, duration,
                   last_progress, updates, idle_tick, histVars, sink>>

\* ------------------------------------------------- the supervision loop
\* _encode_with_progress is left: its locals (queue, reader thread, duration,
\* last_progress) go out of scope.  The process object is kept until the
\* iteration of the batch loop ends, for the exit code it carries.
LeaveSupervision ==
    /\ stop_event' = TRUE
    /\ progress_queue' = <<>>
    /\ reader' = "idle"
    /\ duration' = 0
    /\ last_progress' = 0
    /\ updates' = 0
    /\ idle_tick' = FALSE

\* Variant of SuperviseGet whose error handler re-raises without
\* terminating the encoder.
SuperviseGetLeavesProcess ==
    /\ pc = "supervise"
    /\ progress_queue # <<>>
    /\ LET update == Head(progress_queue) IN
         /\ CASE update.kind = "done" ->
                   /\ progress_queue' = Tail(progress_queue)
                   /\ pc' = "wait"
                   /\ UNCHANGED <<proc, alive, stop_event, last_progress, sink, outFile,
                                  out_seen, cleanup_failed, result, results,
                                  progress_callback, reader, duration, updates, idle_tick>>
              [] update.kind = "error" ->
                   /\ LeaveSupervision
                   /\ UNCHANGED <<proc, alive>>
                   /\ \E f \in OutFiles : FailJob("progress_parse", f)
                   /\ UNCHANGED sink
              [] update.kind = "progress" ->
                   /\ progress_queue' = Tail(progress_queue)
                   /\ last_progress' = IF update.v = -1
                                         THEN Min(99, last_progress + 1)
                                         ELSE update.v
                   /\ sink' = <<"update", i>>
                   /\ UNCHANGED <<pc, proc, alive, stop_event, outFile, out_seen,
                                  cleanup_failed, result, results, progress_callback,
                                  reader, duration, updates, idle_tick>>
    /\ UNCHANGED <<policyVars, n, delete_originals, i, processing_stats, cancelVars, srcExists,
                   started, completed, spawned, counted>>

\* progress_queue.get returned an update.  'done' leaves the loop; an
\* error raises, and the handler sets stop_event, terminates (then kills)
\* a process that is still running, and re-raises into the handler of
\* encode_single_file; a number goes to the display and the callback.
SuperviseGet ==
    /\ pc = "supervise"
    /\ progress_queue # <<>>
    /\ LET update == Head(progress_queue) IN
         /\ CASE update.kind = "done" ->
                   /\ progress_queue' = Tail(progress_queue)
                   /\ pc' = "wait"
                   /\ UNCHANGED <<proc, alive, stop_event, last_progress, sink, outFile,
                                  out_seen, cleanup_failed, result, results,
                                  progress_callback, reader, duration, updates, idle_tick>>
              [] update.kind = "error" ->
                   /\ LeaveSupervision
                   /\ proc' = IF proc = "running" THEN "killed" ELSE proc
                   /\ alive' = alive \ {i}
                   /\ \E f \in OutFiles : FailJob("progress_parse", f)
                   /\ UNCHANGED sink
              [] update.kind = "progress" ->
                   /\ progress_queue' = Tail(progress_queue)
                   /\ last_progress' = IF update.v = -1
                                         THEN Min(99, last_progress + 1)
                                         ELSE update.v
                   /\ sink' = <<"update", i>>
                   /\ UNCHANGED <<pc, proc, alive, stop_event, outFile, out_seen,
                                  cleanup_failed, result, results, progress_callback,
                                  reader, duration, updates, idle_tick>>
    /\ UNCHANGED <<policyVars, n, delete_originals, i, processing_stats, cancelVars, srcExists,
                   started, completed, spawned, counted>>

\* Variant of SuperviseEmpty that looks at the flag on every wait window
\* and terminates a running encoder once it is set.
SuperviseEmptyChecksCancel ==
    /\ pc = "supervise"
    /\ progress_queue = <<>>
    /\ IF proc # "running"
         THEN /\ pc' = "wait"
              /\ UNCHANGED <<sink, idle_tick, cancel_reads, proc, alive, stop_event, reader,
                             duration, last_progress, updates, progress_queue,
                             result, progress_callback, outFile, out_seen,
                             cleanup_failed, results>>
         ELSE /\ cancel_reads' = cancel_reads \cup {"supervise"}
              /\ IF cancel_event
                   THEN /\ LeaveSupervision
                        /\ proc' = "killed"
                        /\ alive' = alive \ {i}
                        /\ \E f \in OutFiles : FailJob("cancelled", f)
                        /\ UNCHANGED sink
                   ELSE /\ sink' = <<"update", i>>
                        /\ idle_tick' = ~idle_tick
                        /\ pc' = pc
                        /\ UNCHANGED <<proc, alive, stop_event, reader, duration, last_progress,
                                       updates, progress_queue, result, progress_callback,
                                       outFile, out_seen, cleanup_failed, results>>
    /\ UNCHANGED <<policyVars, n, delete_originals, i, processing_stats, cancel_event, listener,
                   cancelAt, srcExists, started, completed, spawned, counted>>

\* Variant of SuperviseEmpty that polls the process before it takes what
\* is in the queue: once the process has exited the loop is left at once.
SuperviseEmptyPollsFirst ==
    /\ pc = "supervise"
    /\ progress_queue = <<>> \/ proc # "running"
    /\ IF proc # "running"
         THEN /\ pc' = "wait"
              /\ UNCHANGED <<sink, idle_tick>>
         ELSE /\ sink' = <<"update", i>>
              /\ idle_tick' = ~idle_tick
              /\ pc' = pc
    /\ UNCHANGED <<policyVars, n, delete_originals, i, processing_stats, result, progress_callback,
                   cancelVars, fsVars, proc, progress_queue, reader, stop_event, duration,
                   last_progress, updates, histVars>>

\* progress_queue.get timed out after its 1.0 s window: the loop is left
\* if the process has exited; otherwise the display is refreshed and the
\* loop waits again.
SuperviseEmpty ==
    /\ pc = "supervise"
    /\ progress_queue = <<>>
    /\ IF proc # "running"
         THEN /\ pc' = "wait"
              /\ UNCHANGED <<sink, idle_tick>>
         ELSE /\ sink' = <<"update", i>>
              /\ idle_tick' = ~idle_tick
              /\ pc' = pc
    /\ UNCHANGED <<policyVars, n, delete_originals, i, processing_stats, result, progress_callback,
                   cancelVars, fsVars, proc, progress_queue, reader, stop_event, duration,
                   last_progress, updates, histVars>>

\* After the loop: stop_event.set(), process.wait(timeout=30), the join of
\* the reader, and the check of the return code.  A wait that times out
\* terminates (then kills) the process and raises; a non-zero return code
\* raises; otherwise 100 % is shown and encode_single_file goes on to
\* verify the output.
ProcessWait ==
    /\ pc = "wait"
    /\ LeaveSupervision
    /\ \E f \in OutFiles :
         IF proc = "running"
           THEN /\ proc' = "killed"
                /\ alive' = alive \ {i}
                /\ FailJob("wait_timeout", f)
                /\ UNCHANGED sink
           ELSE IF proc # "exit0"
             THEN /\ FailJob("encode_failed", f)
                  /\ UNCHANGED <<proc, alive, sink>>
             ELSE /\ sink' = <<"update", i>>
                  /\ outFile' = [outFile EXCEPT ![i] = f]
                  /\ pc' = "verify"
                  /\ UNCHANGED <<proc, alive, out_seen, cleanup_failed, result, results,
                                 progress_callback>>
    /\ UNCHANGED <<policyVars, n, delete_originals, i, processing_stats, cancelVars, srcExists,
                   started, completed, spawned, counted>>

\* Variant of VerifyOutput that does not probe the output again.
VerifyOutputSkipsProbe ==
    /\ pc = "verify"
    /\ LET f == outFile[i] IN
         IF ~f.exists THEN FailJob("no_output", f)
         ELSE IF f.size = 0 THEN FailJob("validation", f)
         ELSE /\ result' = [success |-> TRUE, error |-> "none", encoded_size_mb |-> f.size]
              /\ results' = [results EXCEPT ![i] = @ + 1]
              /\ out_seen' = f
              /\ progress_callback' = FALSE
              /\ pc' = "stats"
              /\ UNCHANGED <<outFile, cleanup_failed>>
    /\ UNCHANGED <<policyVars, n, delete_originals, i, processing_stats, cancelVars, srcExists, procVars,
                   started, completed, spawned, alive, counted, sink>>

\* encode_single_file after the encoder returned: the output must exist,
\* must not be empty and must hold a video stream when probed again; the
\* result is then a success carrying the output size.  (An empty or
\* streamless output is removed once in the inner handler and once more in
\* the outer one: the file is gone if either removal succeeds.)
VerifyOutput ==
    /\ pc = "verify"
    /\ LET f == outFile[i] IN
         IF ~f.exists THEN FailJob("no_output", f)
         ELSE IF f.size = 0 \/ ~f.video THEN FailJob("validation", f)
         ELSE /\ result' = [success |-> TRUE, error |-> "none", encoded_size_mb |-> f.size]
              /\ results' = [results EXCEPT ![i] = @ + 1]
              /\ out_seen' = f
              /\ progress_callback' = FALSE
              /\ pc' = "stats"
              /\ UNCHANGED <<outFile, cleanup_failed>>
    /\ UNCHANGED <<policyVars, n, delete_originals, i, processing_stats, cancelVars, srcExists, procVars,
                   started, completed, spawned, alive, counted, sink>>

\* ------------------------------------------------ encode_batch, continued
\* History: by how much this step raises processed_files + failed_files.
CounterDelta ==
    (processing_stats'.processed_files - processing_stats.processed_files)
    + (processing_stats'.failed_files - processing_stats.failed_files)

\* Variant of UpdateStatistics that counts a failure nowhere.
UpdateStatisticsDropsFailure ==
    /\ pc = "stats"
    /\ IF result.success
         THEN /\ processing_stats' =
                    [processing_stats EXCEPT !.processed_files = @ + 1,
                                             !.total_encoded_size = @ + result.encoded_size_mb]
              /\ IF delete_originals
                   THEN \E removed \in BOOLEAN :
                           srcExists' = [srcExists EXCEPT ![i] = IF removed THEN FALSE ELSE @]
                   ELSE UNCHANGED srcExists
         ELSE UNCHANGED <<processing_stats, srcExists>>
    /\ counted' = [counted EXCEPT ![i] = @ + CounterDelta]
    /\ pc' = "complete"
    /\ UNCHANGED <<policyVars, n, delete_originals, i, result, progress_callback, cancelVars, outFile,
                   procVars, started, completed, spawned, alive, results, out_seen, cleanup_failed,
                   sink>>

\* Variant of UpdateStatistics that removes the source whatever the result.
UpdateStatisticsRemovesAlways ==
    /\ pc = "stats"
    /\ IF result.success
         THEN processing_stats' =
                    [processing_stats EXCEPT !.processed_files = @ + 1,
                                             !.total_encoded_size = @ + result.encoded_size_mb]
         ELSE processing_stats' =
                    [processing_stats EXCEPT !.failed_files = @ + 1,
                                             !.failed_file_paths = Append(@, i)]
    /\ IF delete_originals
         THEN \E removed \in BOOLEAN :
                 srcExists' = [srcExists EXCEPT ![i] = IF removed THEN FALSE ELSE @]
         ELSE UNCHANGED srcExists
    /\ counted' = [counted EXCEPT ![i] = @ + CounterDelta]
    /\ pc' = "complete"
    /\ UNCHANGED <<policyVars, n, delete_originals, i, result, progress_callback, cancelVars, outFile,
                   procVars, started, completed, spawned, alive, results, out_seen, cleanup_failed,
                   sink>>

\* Variant of UpdateStatistics whose failure branch is not an else: a
\* success is counted as processed and as failed.
UpdateStatisticsCountsBoth ==
    /\ pc = "stats"
    /\ IF result.success
         THEN /\ processing_stats' =
                    [processing_stats EXCEPT !.processed_files = @ + 1,
                                             !.total_encoded_size = @ + result.encoded_size_mb,
                                             !.failed_files = @ + 1,
                                             !.failed_file_paths = Append(@, i)]
              /\ IF delete_originals
                   THEN \E removed \in BOOLEAN :
                           srcExists' = [srcExists EXCEPT ![i] = IF removed THEN FALSE ELSE @]
                   ELSE UNCHANGED srcExists
         ELSE /\ processing_stats' =
                    [processing_stats EXCEPT !.failed_files = @ + 1,
                                             !.failed_file_paths = Append(@, i)]
              /\ UNCHANGED srcExists
    /\ counted' = [counted EXCEPT ![i] = @ + CounterDelta]
    /\ pc' = "complete"
    /\ UNCHANGED <<policyVars, n, delete_originals, i, result, progress_callback, cancelVars, outFile,
                   procVars, started, completed, spawned, alive, results, out_seen, cleanup_failed,
                   sink>>

\* Variant of UpdateStatistics that adds the size of what a failed job
\* left at its output path.
UpdateStatisticsAddsFailedOutput ==
    /\ pc = "stats"
    /\ IF result.success
         THEN /\ processing_stats' =
                    [processing_stats EXCEPT !.processed_files = @ + 1,
                                             !.total_encoded_size = @ + result.encoded_size_mb]
              /\ IF delete_originals
                   THEN \E removed \in BOOLEAN :
                           srcExists' = [srcExists EXCEPT ![i] = IF removed THEN FALSE ELSE @]
                   ELSE UNCHANGED srcExists
         ELSE /\ processing_stats' =
                    [processing_stats EXCEPT !.failed_files = @ + 1,
                                             !.total_encoded_size = @ + out_seen.size,
                                             !.failed_file_paths = Append(@, i)]
              /\ UNCHANGED srcExists
    /\ counted' = [counted EXCEPT ![i] = @ + CounterDelta]
    /\ pc' = "complete"
    /\ UNCHANGED <<policyVars, n, delete_originals, i, result, progress_callback, cancelVars, outFile,
                   procVars, started, completed, spawned, alive, results, out_seen, cleanup_failed,
                   sink>>

\* Variant of UpdateStatistics that lists the path of every job, failed or
\* not.
UpdateStatisticsListsEveryJob ==
    /\ pc = "stats"
    /\ IF result.success
         THEN /\ processing_stats' =
                    [processing_stats EXCEPT !.processed_files = @ + 1,
                                             !.total_encoded_size = @ + result.encoded_size_mb,
                                             !.failed_file_paths = Append(@, i)]
              /\ IF delete_originals
                   THEN \E removed \in BOOLEAN :
                           srcExists' = [srcExists EXCEPT ![i] = IF removed THEN FALSE ELSE @]
                   ELSE UNCHANGED srcExists
         ELSE /\ processing_stats' =
                    [processing_stats EXCEPT !.failed_files = @ + 1,
                                             !.failed_file_paths = Append(@, i)]
              /\ UNCHANGED srcExists
    /\ counted' = [counted EXCEPT ![i] = @ + CounterDelta]
    /\ pc' = "complete"
    /\ UNCHANGED <<policyVars, n, delete_originals, i, result, progress_callback, cancelVars, outFile,
                   procVars, started, completed, spawned, alive, results, out_seen, cleanup_failed,
                   sink>>

\* "Update statistics": a success counts as processed and adds its size,
\* and the source is removed if delete_originals is set (a failing removal
\* is only reported); a failure counts as failed and its path is listed.
UpdateStatistics ==
    /\ pc = "stats"
    /\ IF result.success
         THEN /\ processing_stats' =
                    [processing_stats EXCEPT !.processed_files = @ + 1,
                                             !.total_encoded_size = @ + result.encoded_size_mb]
              /\ IF delete_originals
                   THEN \E removed \in BOOLEAN :
                           srcExists' = [srcExists EXCEPT ![i] = IF removed THEN FALSE ELSE @]
                   ELSE UNCHANGED srcExists
         ELSE /\ processing_stats' =
                    [processing_stats EXCEPT !.failed_files = @ + 1,
                                             !.failed_file_paths = Append(@, i)]
              /\ UNCHANGED srcExists
    /\ counted' = [counted EXCEPT ![i] = @ + CounterDelta]
    /\ pc' = "complete"
    /\ UNCHANGED <<policyVars, n, delete_originals, i, result, progress_callback, cancelVars, outFile,
                   procVars, started, completed, spawned, alive, results, out_seen, cleanup_failed,
                   sink>>

\* Variant of CompleteFileProcessing that tells the display nothing about
\* a failed job.
CompleteFileProcessingSilentOnFailure ==
    /\ pc = "complete"
    /\ IF result.success
         THEN /\ completed' = [completed EXCEPT ![i] = @ + 1]
              /\ sink' = <<"complete", i>>
         ELSE UNCHANGED <<completed, sink>>
    /\ i' = i + 1
    /\ pc' = "loop_top"
    /\ result' = NoResult
    /\ proc' = "none"
    /\ stop_event' = FALSE
    /\ out_seen' = NoFile
    /\ cleanup_failed' = FALSE
    /\ UNCHANGED <<policyVars, n, delete_originals, processing_stats, progress_callback,
                   cancelVars, fsVars, progress_queue, reader, duration, last_progress,
                   updates, idle_tick, started, spawned, alive, results, counted>>

\* complete_file_processing (an exception of the display is only
\* reported), then the loop goes to its next iteration: the result and the
\* process object of this iteration are dropped.
CompleteFileProcessing ==
    /\ pc = "complete"
    /\ completed' = [completed EXCEPT ![i] = @ + 1]
    /\ sink' = <<"complete", i>>
    /\ i' = i + 1
    /\ pc' = "loop_top"
    /\ result' = NoResult
    /\ proc' = "none"
    /\ stop_event' = FALSE
    /\ out_seen' = NoFile
    /\ cleanup_failed' = FALSE
    /\ UNCHANGED <<policyVars, n, delete_originals, processing_stats, progress_callback,
                   cancelVars, fsVars, progress_queue, reader, duration, last_progress,
                   updates, idle_tick, started, spawned, alive, results, counted>>

\* A variant of the finally clause that records 'cancelled' only when the
\* loop left jobs out.
BatchFinallyMarksEarlyStopOnly ==
    /\ pc = "finally"
    /\ listener' = "stopped"
    /\ cancel_reads' = cancel_reads \cup {"finally"}
    /\ processing_stats' =
          [processing_stats EXCEPT !.cancelled =
              cancel_event /\ (processing_stats.processed_files
                                 + processing_stats.failed_files
                                 < processing_stats.total_files)]
    /\ sink' = <<"summary", 0>>
    /\ pc' = "returned"
    /\ UNCHANGED <<policyVars, n, delete_originals, i, result, progress_callback, cancel_event, cancelAt,
                   fsVars, procVars, histVars>>

\* The finally clause: _stop_cancel_listener, 'cancelled' is recorded if
\* the flag is set, show_final_summary; then the stats are returned.
BatchFinally ==
    /\ pc = "finally"
    /\ listener' = "stopped"
    /\ cancel_reads' = cancel_reads \cup {"finally"}
    /\ processing_stats' = [processing_stats EXCEPT !.cancelled = cancel_event]
    /\ sink' = <<"summary", 0>>
    /\ pc' = "returned"
    /\ UNCHANGED <<policyVars, n, delete_originals, i, result, progress_callback, cancel_event, cancelAt,
                   fsVars, procVars, histVars>>

\* ------------------------------------------------------------------ Next
MainThread ==
    \/ EncodeBatchInit
    \/ BatchLoopCheck
    \/ StartFileProcessing
    \/ EncodeSingleFilePrepare
    \/ Popen
    \/ SuperviseGet
    \/ SuperviseEmpty
    \/ ProcessWait
    \/ VerifyOutput
    \/ UpdateStatistics
    \/ CompleteFileProcessing
    \/ BatchFinally

ReaderThread ==
    \/ ParseProgressPut
    \/ ParseProgressError
    \/ ParseProgressDone

Next ==
    \/ MainThread
    \/ ReaderThread
    \/ ListenForCancel
    \/ ProcessExit

Spec == Init /\ [][Next]_vars

\* The main thread keeps running as long as it has a step to take.  The
\* encoder process, the status lines and the key press are not forced.
FairSpec == Spec /\ WF_vars(MainThread)

TypeOK ==
    /\ n \in 1..MaxJobs
    /\ pc \in {"idle", "loop_top", "start", "prepare", "spawn", "supervise", "wait",
               "verify", "stats", "complete", "finally", "returned"}
    /\ proc \in {"none", "running", "exit0", "exit1", "killed"}
    /\ reader \in {"idle", "running", "done"}
    /\ listener \in {"none", "listening", "done", "stopped"}
    /\ Len(progress_queue) <= MaxUpdates + 2

\* ======================================================= resolution_handler
\* ResolutionPreset: the width and height of each preset.
ResolutionPreset ==
    [HD |-> <<1280, 720>>, FHD |-> <<1920, 1080>>,
     QHD |-> <<2560, 1440>>, UHD |-> <<3840, 2160>>]

PresetNames == DOMAIN ResolutionPreset

Max(a, b) == IF a > b THEN a ELSE b

\* ResolutionHandler.target_longest_side, kept equal to the longer side of
\* the preset by __init__ and set_target_preset.
target_longest_side ==
    Max(ResolutionPreset[target_preset][1], ResolutionPreset[target_preset][2])

VideoResolution(w, h) == [width |-> w, height |-> h]

\* VideoResolution.longest_side
longest_side(r) == Max(r.width, r.height)

\* Width to height of the sources explored, longer side first.
AspectRatios == {<<1, 1>>, <<4, 3>>, <<16, 9>>}

\* The sources explored: every longest side up to MaxSide, in each aspect
\* ratio, landscape and portrait.
Resolutions ==
    UNION {{VideoResolution(d, Max(1, (d * a[2]) \div a[1])),
            VideoResolution(Max(1, (d * a[2]) \div a[1]), d)} :
              d \in 1..MaxSide, a \in AspectRatios}

\* Very wide and very tall sources: SliverLong by 1 .. SliverShort, and the
\* same turned.
Slivers ==
    UNION {{VideoResolution(SliverLong, s), VideoResolution(s, SliverLong)} :
              s \in 1..SliverShort}

\* Bits of the fraction of a double's significand.
MantissaBits == 52

\* The least s with t * 2^s >= d.
RECURSIVE Doublings(_, _)
Doublings(t, d) == IF t >= d THEN 0 ELSE 1 + Doublings(2 * t, d)

\* Long division of l by d, e binary places on: the remainder and the last
\* quotient bit.
RECURSIVE DivBits(_, _, _, _)
DivBits(rem, bit, d, e) ==
    IF e = 0 THEN <<rem, bit>>
    ELSE DivBits((2 * rem) % d, (2 * rem) \div d, d, e - 1)

\* floor(log2(k)) for k >= 1.
RECURSIVE Log2(_)
Log2(k) == IF k < 2 THEN 0 ELSE 1 + Log2(k \div 2)

\* int(v * (l / d)) in double-precision arithmetic, for 0 < l < d and
\* 1 <= v <= d.  The quotient l / d is rounded to 53 significant bits, the
\* product is rounded again, and int() truncates.  When v*l/d is not an
\* integer the two roundings cannot reach the next integer and the result
\* is the floor.  When it is an integer k, the result is k unless the
\* quotient was rounded down and the product v * (l / d) falls short of k
\* by more than half the distance between k and the double before it: the
\* product is then rounded to a double below k and int() gives k - 1.
IntOfScaled(v, l, d) ==
    LET k == (v * l) \div d
        f == (v * l) % d
        s == Doublings(l, d)
        db == DivBits(l, 0, d, s + MantissaBits)
        r == db[1]
        roundedUp == 2 * r > d \/ (2 * r = d /\ db[2] = 1)
        ek == Log2(k)
        pw == IF k = 2 ^ ek THEN 1 ELSE 0
    IN  IF f # 0 \/ k = 0 THEN k
        ELSE IF r = 0 \/ roundedUp THEN k
        ELSE IF 2 * v * r <= d * 2 ^ (s + ek - pw) THEN k
        ELSE k - 1

\* ResolutionHandler.needs_resizing
needs_resizing(r) == longest_side(r) > target_longest_side

\* Variant of calculate_target_resolution that makes the dimensions even
\* also when no resizing is needed.
calculate_target_resolution_always_even(r) ==
    IF ~needs_resizing(r)
      THEN VideoResolution(r.width - (r.width % 2), r.height - (r.height % 2))
      ELSE LET new_width == IntOfScaled(r.width, target_longest_side, longest_side(r))
               new_height == IntOfScaled(r.height, target_longest_side, longest_side(r))
           IN  VideoResolution(new_width - (new_width % 2), new_height - (new_height % 2))

\* ResolutionHandler.calculate_target_resolution
calculate_target_resolution(r) ==
    IF ~needs_resizing(r) THEN r
    ELSE LET new_width == IntOfScaled(r.width, target_longest_side, longest_side(r))
             new_height == IntOfScaled(r.height, target_longest_side, longest_side(r))
         IN  VideoResolution(new_width - (new_width % 2), new_height - (new_height % 2))

\* ResolutionHandler.get_ffmpeg_scale_filter: no filter when the target is
\* the source, otherwise "scale=W:H".
get_ffmpeg_scale_filter(r) ==
    LET target_resolution == calculate_target_resolution(r) IN
      IF r.width = target_resolution.width /\ r.height = target_resolution.height
        THEN [set |-> FALSE, width |-> 0, height |-> 0]
        ELSE [set |-> TRUE, width |-> target_resolution.width,
              height |-> target_resolution.height]

\* ResolutionHandler.get_resolution_info for a source whose resolution was
\* found.  The dict it builds holds the aspect ratio of the target, width
\* / height: with a target of height 0 that division raises
\* ZeroDivisionError and nothing is returned.
GetResolutionInfo ==
    /\ ~res_info.valid
    /\ res_info' =
          IF calculate_target_resolution(current_resolution).height = 0
            THEN [NoResInfo EXCEPT !.raised = TRUE]
            ELSE [valid |-> TRUE,
                  raised |-> FALSE,
                  needs_resize |-> needs_resizing(current_resolution),
                  target |-> calculate_target_resolution(current_resolution),
                  scale_filter |-> get_ffmpeg_scale_filter(current_resolution)]
    /\ UNCHANGED <<batchVars, cancelVars, fsVars, procVars, histVars, sink, cfgVars, bagVars, cleanVars, dispVars, probeVars, extraVars,
                   target_preset, current_resolution>>

\* ResolutionHandler.set_target_preset; what was computed for the old
\* preset is dropped.
SetTargetPreset ==
    /\ \E preset \in PresetNames \ {target_preset} : target_preset' = preset
    /\ res_info' = NoResInfo
    /\ UNCHANGED <<batchVars, cancelVars, fsVars, procVars, histVars, sink, cfgVars, bagVars, cleanVars, dispVars, probeVars, extraVars,
                   current_resolution>>

\* A handler with any preset and a source of any of the resolutions; the
\* engine itself stays idle.
ResInit ==
    /\ BatchInit
    /\ n = 1
    /\ ~delete_originals
    /\ srcExists[1]
    /\ ~outFile[1].exists
    /\ target_preset \in PresetNames
    /\ current_resolution \in Resolutions \cup Slivers
    /\ res_info = NoResInfo
    /\ CfgIdle
    /\ BagIdle
    /\ CleanIdle
    /\ DispIdle
    /\ ProbeIdle
    /\ ExtraIdle

ResNext == GetResolutionInfo \/ SetTargetPreset

ResSpec == ResInit /\ [][ResNext]_vars

\* ========================================================== encoding_config
\* The encoder ids the program uses.
CodecIds ==
    {"libx264", "libx265", "h264_nvenc", "hevc_nvenc",
     "h264_amf", "hevc_amf", "h264_qsv", "hevc_qsv"}

\* sub in codec, for the substrings the program looks for.
Contains(codec, sub) ==
    CASE sub = "nvenc" -> codec \in {"h264_nvenc", "hevc_nvenc"}
      [] sub = "amf" -> codec \in {"h264_amf", "hevc_amf"}
      [] sub = "qsv" -> codec \in {"h264_qsv", "hevc_qsv"}
      [] sub = "h264" -> codec \in {"h264_nvenc", "h264_amf", "h264_qsv"}
      [] OTHER -> FALSE

\* HardwareDetector.get_recommended_encoder: what it can return.
Recommendations ==
    {[hw_accel |-> "none", video_codec |-> "libx265"],
     [hw_accel |-> "cuda", video_codec |-> "hevc_nvenc"],
     [hw_accel |-> "auto", video_codec |-> "hevc_amf"],
     [hw_accel |-> "qsv", video_codec |-> "hevc_qsv"]}

\* Numbers given to set_crf_encoding and set_vbr_encoding (in hundredths):
\* below, inside and above both ranges.
ValueArgs == {-500, 5, 75, 120, 1001, 2350, 5100, 100000}

\* Bitrates a probe may report for a source: none, a text that is not a
\* number ("N/A"), or a decimal number.
SourceBitrates ==
    {NoBitrate, [kind |-> "text", v |-> 0]}
        \cup {[kind |-> "int", v |-> b] : b \in {1001, 2000, 64003}}

\* Variant of set_crf_encoding that stores the value as given.
set_crf_encoding_unclamped(cfg, crf_value) ==
    [cfg EXCEPT !.method = "CRF", !.value = crf_value]

\* set_crf_encoding: max(0, min(51, crf_value))
set_crf_encoding(cfg, crf_value) ==
    [cfg EXCEPT !.method = "CRF", !.value = Max(0, Min(51 * Hundred, crf_value))]

\* set_vbr_encoding: max(0.1, min(10.0, bitrate_multiplier))
set_vbr_encoding(cfg, bitrate_multiplier) ==
    [cfg EXCEPT !.method = "VBR",
                !.value = Max(Hundred \div 10, Min(10 * Hundred, bitrate_multiplier))]

\* Variant of set_hardware_acceleration that stores the codec only.
set_hardware_acceleration_codec_only(cfg, hw_accel, video_codec) ==
    [cfg EXCEPT !.video_codec = video_codec]

\* set_hardware_acceleration
set_hardware_acceleration(cfg, hw_accel, video_codec) ==
    [cfg EXCEPT !.hw_accel = hw_accel, !.video_codec = video_codec]

\* Variant of set_codec_type that always picks the software encoder.
set_codec_type_software_only(cfg, codec_type, hw_accel) ==
    [cfg EXCEPT !.codec_type = codec_type,
                !.video_codec = IF codec_type = "H264" THEN "libx264" ELSE "libx265"]

\* set_codec_type: with hw_accel given, the vendor is read off the codec id
\* in effect; without it the software encoder of the family is chosen.
set_codec_type(cfg, codec_type, hw_accel) ==
    [cfg EXCEPT
       !.codec_type = codec_type,
       !.video_codec =
          IF hw_accel # "none"
            THEN IF codec_type = "H264"
                   THEN IF Contains(cfg.video_codec, "nvenc") THEN "h264_nvenc"
                        ELSE IF Contains(cfg.video_codec, "amf") THEN "h264_amf"
                        ELSE IF Contains(cfg.video_codec, "qsv") THEN "h264_qsv"
                        ELSE "libx264"
                   ELSE IF Contains(cfg.video_codec, "nvenc") THEN "hevc_nvenc"
                        ELSE IF Contains(cfg.video_codec, "amf") THEN "hevc_amf"
                        ELSE IF Contains(cfg.video_codec, "qsv") THEN "hevc_qsv"
                        ELSE "libx265"
            ELSE IF codec_type = "H264" THEN "libx264" ELSE "libx265"]

\* VideoEncoder._apply_hardware_recommendations
apply_hardware_recommendations(cfg, recommendations) ==
    IF recommendations.hw_accel # "none"
      THEN set_codec_type(
               set_hardware_acceleration(cfg, recommendations.hw_accel,
                                         recommendations.video_codec),
               IF Contains(recommendations.video_codec, "h264") THEN "H264" ELSE "H265",
               recommendations.hw_accel)
      ELSE cfg

\* What calculate_target_bitrate gives: a number, or ValueError.
Raised(err) == [ok |-> FALSE, error |-> err, v |-> 0]

Returned(v) == [ok |-> TRUE, error |-> "none", v |-> v]

\* Variant of calculate_target_bitrate that rounds to the nearest integer.
calculate_target_bitrate_rounds(cfg, original_bitrate) ==
    IF cfg.method # "VBR" THEN Raised("not_vbr")
    ELSE IF original_bitrate.kind # "int" THEN Raised("invalid_bitrate")
    ELSE Returned((original_bitrate.v * cfg.value + Hundred \div 2) \div Hundred)

\* calculate_target_bitrate: int(int(original_bitrate) * value).  (For the
\* bitrates and multipliers explored the double product truncates to the
\* same integer as the exact product.)
calculate_target_bitrate(cfg, original_bitrate) ==
    IF cfg.method # "VBR" THEN Raised("not_vbr")
    ELSE IF original_bitrate.kind # "int" THEN Raised("invalid_bitrate")
    ELSE Returned((original_bitrate.v * cfg.value) \div Hundred)

\* Variant of generate_ffmpeg_params that falls back to a fixed bitrate
\* when the source has none.
generate_ffmpeg_params_defaults_bitrate(cfg, original_bitrate) ==
    LET call == [NoParams EXCEPT !.vcodec = cfg.video_codec, !.method = cfg.method,
                                 !.value = cfg.value,
                                 !.original_bitrate = original_bitrate]
    IN  IF cfg.method = "CRF"
          THEN [call EXCEPT !.status = "ok", !.crf = cfg.value \div Hundred]
          ELSE IF original_bitrate.kind = "int"
                 THEN [call EXCEPT !.status = "ok",
                                   !.b_v = calculate_target_bitrate(cfg, original_bitrate).v]
                 ELSE [call EXCEPT !.status = "ok", !.b_v = 1000]

\* generate_ffmpeg_params, as far as the codec and the method go: 'crf' is
\* int(value); 'b:v' is the target bitrate, and a missing or non-numeric
\* source bitrate raises ValueError.
generate_ffmpeg_params(cfg, original_bitrate) ==
    LET call == [NoParams EXCEPT !.vcodec = cfg.video_codec, !.method = cfg.method,
                                 !.value = cfg.value,
                                 !.original_bitrate = original_bitrate]
    IN  IF cfg.method = "CRF"
          THEN [call EXCEPT !.status = "ok", !.crf = cfg.value \div Hundred]
          ELSE IF original_bitrate.kind # "none"
                 THEN LET target_bitrate == calculate_target_bitrate(cfg, original_bitrate)
                      IN  IF target_bitrate.ok
                            THEN [call EXCEPT !.status = "ok", !.b_v = target_bitrate.v]
                            ELSE [call EXCEPT !.status = "error",
                                              !.error = target_bitrate.error]
                 ELSE [call EXCEPT !.status = "error", !.error = "bitrate_required"]

\* VideoEncoder.set_encoding_method
SetEncodingMethod ==
    /\ \E method \in {"CRF", "VBR"}, value \in ValueArgs :
          /\ config' = IF method = "CRF" THEN set_crf_encoding(config, value)
                                         ELSE set_vbr_encoding(config, value)
          /\ last_value_arg' = value
    /\ UNCHANGED <<batchVars, cancelVars, fsVars, procVars, histVars, sink, resVars, bagVars, cleanVars, dispVars, probeVars, extraVars,
                   params>>

\* VideoEncoder.set_codec_type: the manager's set_codec_type with the
\* configured hw_accel.
EncoderSetCodecType ==
    /\ \E codec_type \in {"H264", "H265"} :
          config' = set_codec_type(config, codec_type, config.hw_accel)
    /\ UNCHANGED <<batchVars, cancelVars, fsVars, procVars, histVars, sink, resVars, bagVars, cleanVars, dispVars, probeVars, extraVars,
                   params, last_value_arg>>

\* EncodingConfigManager.set_codec_type called directly, with hw_accel
\* given or left at its default None.
SetCodecType ==
    /\ \E codec_type \in {"H264", "H265"},
          hw_accel \in {r.hw_accel : r \in Recommendations} :
          config' = set_codec_type(config, codec_type, hw_accel)
    /\ UNCHANGED <<batchVars, cancelVars, fsVars, procVars, histVars, sink, resVars, bagVars, cleanVars, dispVars, probeVars, extraVars,
                   params, last_value_arg>>

\* EncodingConfigManager.set_hardware_acceleration called directly with a
\* recommendation that names a hardware encoder.
SetHardwareAcceleration ==
    /\ \E r \in Recommendations :
          /\ r.hw_accel # "none"
          /\ config' = set_hardware_acceleration(config, r.hw_accel, r.video_codec)
    /\ UNCHANGED <<batchVars, cancelVars, fsVars, procVars, histVars, sink, resVars, bagVars, cleanVars, dispVars, probeVars, extraVars,
                   params, last_value_arg>>

\* encode_single_file called for one source, up to the parameters (lines
\* 345-354): generate_ffmpeg_params is called with the bitrate of the
\* source; if it raises, the handler of encode_single_file puts the error
\* in the result, which is returned.
EncodeSingleFileParams ==
    /\ pc = "idle"
    /\ \E original_bitrate \in SourceBitrates :
          /\ params' = generate_ffmpeg_params(config, original_bitrate)
          /\ result' = IF params'.status = "error" THEN Failure("params") ELSE NoResult
    /\ UNCHANGED <<n, delete_originals, pc, i, processing_stats, progress_callback,
                   cancelVars, fsVars, procVars, histVars, sink, resVars, bagVars, cleanVars, dispVars, probeVars, extraVars,
                   config, last_value_arg>>

\* An encoder as VideoEncoder.__init__ leaves it, for any recommendation of
\* the hardware detector; the batch engine stays idle.
CfgInit ==
    /\ BatchInit
    /\ n = 1
    /\ ~delete_originals
    /\ srcExists[1]
    /\ ~outFile[1].exists
    /\ ResIdle
    /\ BagIdle
    /\ CleanIdle
    /\ DispIdle
    /\ ProbeIdle
    /\ ExtraIdle
    /\ \E r \in Recommendations :
          config = apply_hardware_recommendations(DefaultConfig, r)
    /\ params = NoParams
    /\ last_value_arg = 23 * Hundred

CfgNext ==
    \/ SetEncodingMethod
    \/ EncoderSetCodecType
    \/ SetCodecType
    \/ SetHardwareAcceleration
    \/ EncodeSingleFileParams

CfgSpec == CfgInit /\ [][CfgNext]_vars

\* ============================================ generate_ffmpeg_params: the bag
\* A dict is a function from the keys it holds to their values, all text
\* (numbers as their decimal text).  The keys 'b:v', 'profile:v' and
\* 'x265-params' are written b_v, profile_v and x265_params.
\* dict.update: the keys of d2 are set in d1.
Update(d1, d2) ==
    [k \in DOMAIN d1 \cup DOMAIN d2 |-> IF k \in DOMAIN d2 THEN d2[k] ELSE d1[k]]

\* The quality values and multipliers offered by the menus (two presets of
\* each table), in hundredths.
CrfChoices == {23 * Hundred, 28 * Hundred}

VbrChoices == {75, 120}

\* What additional_params may hold: nothing, or settings of the caller, one
\* under a key of the builder and one under a key of the tuning bundles.
AdditionalChoices ==
    {EmptyDict, [preset |-> "slow", level |-> "5.1"]}

\* The sources a build is asked for: bitrate unknown and nothing to scale,
\* or a bitrate and a scale filter.
BuildSources ==
    {[original_bitrate |-> NoBitrate, scale_filter |-> "none"],
     [original_bitrate |-> [kind |-> "int", v |-> 2000],
      scale_filter |-> "scale=1280:720"]}

\* _get_nvenc_optimizations
get_nvenc_optimizations(cfg) ==
    [rc |-> IF cfg.method = "VBR" THEN "vbr" ELSE "cqp",
     profile_v |-> "main", level |-> "4.1",
     b_ref_mode |-> "middle", spatial_aq |-> "1", temporal_aq |-> "1"]

\* _get_amf_optimizations
get_amf_optimizations(cfg) ==
    [profile_v |-> "main", level |-> "4.1",
     rc |-> IF cfg.method = "VBR" THEN "vbr_peak" ELSE "cqp",
     quality |-> "balanced"]

\* _get_qsv_optimizations
get_qsv_optimizations ==
    [profile_v |-> "main", level |-> "4.1", look_ahead |-> "1",
     look_ahead_depth |-> "40"]

\* Variant of _get_x265_optimizations whose level follows the CRF value.
get_x265_optimizations_by_value(cfg) ==
    [profile_v |-> "main",
     level |-> IF cfg.value <= 23 * Hundred THEN "5.1" ELSE "4.1",
     x265_params |-> "aq-mode=3:aq-strength=0.8:deblock=1,1"]

\* _get_x265_optimizations
get_x265_optimizations(cfg) ==
    [profile_v |-> "main", level |-> "4.1",
     x265_params |-> "aq-mode=3:aq-strength=0.8:deblock=1,1"]

\* The tuning bundle generate_ffmpeg_params selects (lines 184-191);
\* libx264 has none.
optimizations(cfg) ==
    IF Contains(cfg.video_codec, "nvenc") THEN get_nvenc_optimizations(cfg)
    ELSE IF Contains(cfg.video_codec, "amf") THEN get_amf_optimizations(cfg)
    ELSE IF Contains(cfg.video_codec, "qsv") THEN get_qsv_optimizations
    ELSE IF cfg.video_codec = "libx265" THEN get_x265_optimizations(cfg)
    ELSE EmptyDict

\* The method-specific parameter (lines 165-172): 'crf' is int(value),
\* 'b:v' the target bitrate as text.
method_params(cfg, original_bitrate) ==
    IF cfg.method = "CRF"
      THEN [crf |-> ToString(cfg.value \div Hundred)]
      ELSE [b_v |-> ToString(calculate_target_bitrate(cfg, original_bitrate).v)]

\* Variant of video_params that applies the tuning bundle last.
video_params_bundle_last(cfg, additional, original_bitrate, scale_filter) ==
    LET base == [vcodec |-> cfg.video_codec]
        withPreset ==
            IF ~Contains(cfg.video_codec, "amf") /\ ~Contains(cfg.video_codec, "qsv")
              THEN Update(base, [preset |-> "medium"])
              ELSE base
        withMethod == Update(withPreset, method_params(cfg, original_bitrate))
        withFilter ==
            IF scale_filter # "none" THEN Update(withMethod, [vf |-> scale_filter])
                                     ELSE withMethod
    IN  Update(Update(withFilter, additional), optimizations(cfg))

\* video_params of generate_ffmpeg_params (lines 155-194), for a build that
\* does not raise: the builder's keys, then the tuning bundle, then
\* additional_params.  (Every caller passes the preset "medium".)
video_params(cfg, additional, original_bitrate, scale_filter) ==
    LET base == [vcodec |-> cfg.video_codec]
        withPreset ==
            IF ~Contains(cfg.video_codec, "amf") /\ ~Contains(cfg.video_codec, "qsv")
              THEN Update(base, [preset |-> "medium"])
              ELSE base
        withMethod == Update(withPreset, method_params(cfg, original_bitrate))
        withFilter ==
            IF scale_filter # "none" THEN Update(withMethod, [vf |-> scale_filter])
                                     ELSE withMethod
    IN  Update(Update(withFilter, optimizations(cfg)), additional)

\* global_args of generate_ffmpeg_params (lines 150-152)
global_args(cfg) ==
    IF cfg.hw_accel # "none" THEN <<"-hwaccel", cfg.hw_accel>> ELSE <<>>

\* One call of generate_ffmpeg_params: its arguments, the policy it read,
\* the bundle it selected and what it returned (nothing if it raised).
Build(cfg, additional, source) ==
    LET call == [NoBuild EXCEPT !.config = cfg, !.additional_params = additional,
                                !.original_bitrate = source.original_bitrate,
                                !.scale_filter = source.scale_filter]
    IN  IF generate_ffmpeg_params(cfg, source.original_bitrate).status = "error"
          THEN [call EXCEPT !.status = "error"]
          ELSE [call EXCEPT
                  !.status = "ok",
                  !.bundle = optimizations(cfg),
                  !.video_params = video_params(cfg, additional,
                                                source.original_bitrate,
                                                source.scale_filter),
                  !.global_args = global_args(cfg)]

\* The menus of main.py: a preset of the method chosen is given to
\* VideoEncoder.set_encoding_method.
SelectEncodingMethod ==
    /\ \E method \in {"CRF", "VBR"} :
          \E value \in (IF method = "CRF" THEN CrfChoices ELSE VbrChoices) :
             /\ config' = IF method = "CRF" THEN set_crf_encoding(config, value)
                                            ELSE set_vbr_encoding(config, value)
             /\ last_value_arg' = value
    /\ UNCHANGED <<batchVars, cancelVars, fsVars, procVars, histVars, sink, resVars,
                   params, bagVars, cleanVars, dispVars, probeVars, extraVars>>

\* config.additional_params is assigned.
SetAdditionalParams ==
    /\ \E d \in AdditionalChoices :
          /\ d # additional_params
          /\ additional_params' = d
    /\ UNCHANGED <<batchVars, cancelVars, fsVars, procVars, histVars, sink, resVars,
                   cfgVars, built, prev_built, cleanVars, dispVars, probeVars, extraVars>>

\* Variant of GenerateFfmpegParams in which global_args outlives the call:
\* each build extends the list of the build before.
GenerateFfmpegParamsSharedArgs ==
    /\ \E source \in BuildSources :
          LET b == Build(config, additional_params, source)
          IN  built' = IF b.status = "ok"
                         THEN [b EXCEPT !.global_args = built.global_args \o @]
                         ELSE b
    /\ prev_built' = built
    /\ UNCHANGED <<batchVars, cancelVars, fsVars, procVars, histVars, sink, resVars,
                   cfgVars, additional_params, cleanVars, dispVars, probeVars, extraVars>>

\* generate_ffmpeg_params is called for a source.
GenerateFfmpegParams ==
    /\ \E source \in BuildSources :
          built' = Build(config, additional_params, source)
    /\ prev_built' = built
    /\ UNCHANGED <<batchVars, cancelVars, fsVars, procVars, histVars, sink, resVars,
                   cfgVars, additional_params, cleanVars, dispVars, probeVars, extraVars>>

\* An encoder as VideoEncoder.__init__ leaves it, for any recommendation of
\* the hardware detector; the batch engine stays idle.
BagInit ==
    /\ BatchInit
    /\ n = 1
    /\ ~delete_originals
    /\ srcExists[1]
    /\ ~outFile[1].exists
    /\ ResIdle
    /\ BagIdle
    /\ CleanIdle
    /\ DispIdle
    /\ ProbeIdle
    /\ ExtraIdle
    /\ \E r \in Recommendations :
          config = apply_hardware_recommendations(DefaultConfig, r)
    /\ params = NoParams
    /\ last_value_arg = 23 * Hundred

BagNext ==
    \/ SelectEncodingMethod
    \/ EncoderSetCodecType
    \/ SetAdditionalParams
    \/ GenerateFfmpegParams

BagSpec == BagInit /\ [][BagNext]_vars

\* ======================================================== the encoder command
\* ffmpeg-python's compile() for the output stream of encode_single_file:
\* the input, the output with its parameters (left out here), the global
\* arguments in the order they were added, and -y if overwrite_output.
compile(args, overwrite_output) ==
    <<"ffmpeg", "-i", "input", "output">> \o args
        \o (IF overwrite_output THEN <<"-y">> ELSE <<>>)

\* The arguments _encode_with_progress takes out of the compiled command.
RemovedArgs == {"-progress", "pipe:1", "-nostats", "-stats", "-v", "info"}

\* The command _encode_with_progress gives to Popen (lines 666-674):
\* compile() without overwrite_output, the progress arguments removed,
\* -nostdin -stats -loglevel info appended.
encode_with_progress_cmd(cfg) ==
    LET Kept(arg) == arg \notin RemovedArgs
    IN  SelectSeq(compile(global_args(cfg) \o <<"-progress", "pipe:1">>, FALSE), Kept)
            \o <<"-nostdin", "-stats", "-loglevel", "info">>

\* The command of output_stream.run(overwrite_output=True, ...) on the
\* path without a callback (lines 384-393).
run_cmd(cfg) == compile(global_args(cfg) \o <<"-nostdin">>, TRUE)

\* The command of the encoder process encode_single_file starts.
encoder_cmd ==
    IF progress_callback THEN encode_with_progress_cmd(config) ELSE run_cmd(config)

\* ====================================================== cleanup_failed_files
\* The size below which cleanup takes an output for incomplete, in bytes.
KB == 1024

\* The outputs cleanup may find, sizes in bytes: nothing, an empty file, a
\* file just under 1 KB, a video of 1 KB.
CleanupFiles == {NoFile, File(0, FALSE), File(KB - 1, FALSE), File(KB, TRUE)}

\* The lists failed_file_paths may hold at the end of a batch of n jobs:
\* any of its jobs, in batch order.
FailedPathLists ==
    {<<>>} \cup {<<j>> : j \in 1..MaxJobs}
           \cup {<<j, k>> : j \in 1..MaxJobs, k \in 1..MaxJobs}

Range(seq) == {seq[k] : k \in 1..Len(seq)}

\* The first loop (lines 600-610): the output of every failed path is
\* removed if it exists; an os.remove that raises leaves it and the loop
\* goes on.
AfterFailedLoop(files, failed) ==
    {g \in [DOMAIN files -> CleanupFiles] :
        \A j \in DOMAIN files :
            IF j \in Range(failed) THEN g[j] \in AfterRemove(files[j])
                                   ELSE g[j] = files[j]}

\* Variant of AfterOrphanLoop without the size test.
AfterOrphanLoopAnySize(files, known) ==
    {[j \in DOMAIN files |->
         IF j \in known /\ j <= stop /\ files[j].exists
           THEN NoFile ELSE files[j]] :
       stop \in {k \in 0..n : k = n \/ (k + 1 \in known /\ files[k + 1].exists)}}

\* The second loop (lines 613-625): the output of every known file is
\* removed if it exists and is smaller than 1 KB; the loop is inside one
\* try, so whatever raises at one file ends it (stop: the last file done).
AfterOrphanLoop(files, known) ==
    {[j \in DOMAIN files |->
         IF j \in known /\ j <= stop /\ files[j].exists /\ files[j].size < KB
           THEN NoFile ELSE files[j]] :
       stop \in {k \in 0..n : k = n \/ (k + 1 \in known /\ files[k + 1].exists)}}

\* cleanup_failed_files, run after the batch has returned.
CleanupFailedFiles ==
    /\ pc = "returned"
    /\ \E g \in AfterFailedLoop(outFile, processing_stats.failed_file_paths) :
          \E h \in AfterOrphanLoop(g, video_files) :
             /\ outFile' = h
             /\ cleaned' = {[job |-> j, size |-> outFile[j].size] :
                              j \in {k \in 1..n : outFile[k].exists /\ ~h[k].exists}}
    /\ pc' = "cleaned"
    /\ UNCHANGED <<n, delete_originals, i, processing_stats, result, progress_callback,
                   cancelVars, srcExists, procVars, histVars, sink,
                   resVars, cfgVars, bagVars, video_files, dispVars, probeVars, extraVars>>

\* A batch of n jobs has returned: some of its jobs are listed as failed,
\* anything may be at the output paths, and self.video_files holds any of
\* the jobs.  (What the batch did job by job is not followed here.)
CleanupInit ==
    /\ n \in 1..MaxJobs
    /\ delete_originals = FALSE
    /\ pc = "returned"
    /\ i = n
    /\ cancel_event = FALSE
    /\ listener = "stopped"
    /\ \E failed \in FailedPathLists :
          /\ \A k \in 1..Len(failed) : failed[k] <= n
          /\ \A k \in 1..Len(failed) - 1 : failed[k] < failed[k + 1]
          /\ processing_stats =
                [total_files |-> n, processed_files |-> n - Len(failed),
                 failed_files |-> Len(failed),
                 total_original_size |-> SumTo([j \in 1..n |-> size_mb(j)], n),
                 total_encoded_size |-> 0,
                 failed_file_paths |-> failed, cancelled |-> FALSE]
    /\ srcExists = [j \in 1..n |-> TRUE]
    /\ outFile \in [1..n -> CleanupFiles]
    /\ result = NoResult
    /\ proc = "none"
    /\ progress_queue = <<>>
    /\ reader = "idle"
    /\ stop_event = FALSE
    /\ progress_callback = FALSE
    /\ duration = 0
    /\ last_progress = 0
    /\ updates = 0
    /\ idle_tick = FALSE
    /\ sink = <<"summary", 0>>
    /\ started = [j \in 1..n |-> 0]
    /\ completed = [j \in 1..n |-> 0]
    /\ spawned = [j \in 1..n |-> 0]
    /\ alive = {}
    /\ results = [j \in 1..n |-> 0]
    /\ counted = [j \in 1..n |-> 0]
    /\ out_seen = NoFile
    /\ cleanup_failed = FALSE
    /\ cancel_reads = {}
    /\ cancelAt = [phase |-> "never", k |-> 0]
    /\ ResIdle
    /\ CfgIdle
    /\ BagIdle
    /\ video_files \in SUBSET (1..n)
    /\ cleaned = {}
    /\ DispIdle
    /\ ProbeIdle
    /\ ExtraIdle

CleanupNext == CleanupFailedFiles

CleanupSpec == CleanupInit /\ [][CleanupNext]_vars

\* ===================================================== the progress display
\* What encode_batch hands to complete_file_processing for job j: the
\* result's success, original_size_mb (the size of the source) and
\* encoded_size_mb (0.0 for a failure).
DisplayCalls(j) ==
    {[success |-> TRUE, original_size_mb |-> size_mb(j), encoded_size_mb |-> e] : e \in 1..2}
        \cup {[success |-> FALSE, original_size_mb |-> size_mb(j), encoded_size_mb |-> 0]}

\* complete_file_processing is entered for the next job (its file_stat
\* entry is filled in; the session counters are not touched yet).
CompleteFileProcessingEnter ==
    /\ display_pc = "idle"
    /\ Len(reported) < n
    /\ \E c \in DisplayCalls(Len(reported) + 1) :
          /\ display_call' = c
          /\ reported' = Append(reported, c)
    /\ display_pc' = "count"
    /\ UNCHANGED <<batchVars, cancelVars, fsVars, procVars, histVars, sink,
                   resVars, cfgVars, bagVars, cleanVars, probeVars, extraVars,
                   session_stats, refresh_pc, frame>>

\* completed_files += 1, or failed_files += 1 which ends the update.
CompleteCount ==
    /\ display_pc = "count"
    /\ IF display_call.success
         THEN /\ session_stats' = [session_stats EXCEPT !.completed_files = @ + 1]
              /\ display_pc' = "original"
         ELSE /\ session_stats' = [session_stats EXCEPT !.failed_files = @ + 1]
              /\ display_pc' = "idle"
    /\ UNCHANGED <<batchVars, cancelVars, fsVars, procVars, histVars, sink,
                   resVars, cfgVars, bagVars, cleanVars, probeVars, extraVars,
                   display_call, refresh_pc, frame, reported>>

\* total_original_size_mb += original_size_mb
CompleteOriginal ==
    /\ display_pc = "original"
    /\ session_stats' = [session_stats EXCEPT
                            !.total_original_size_mb = @ + display_call.original_size_mb]
    /\ display_pc' = "encoded"
    /\ UNCHANGED <<batchVars, cancelVars, fsVars, procVars, histVars, sink,
                   resVars, cfgVars, bagVars, cleanVars, probeVars, extraVars,
                   display_call, refresh_pc, frame, reported>>

\* total_encoded_size_mb += encoded_size_mb
CompleteEncoded ==
    /\ display_pc = "encoded"
    /\ session_stats' = [session_stats EXCEPT
                            !.total_encoded_size_mb = @ + display_call.encoded_size_mb]
    /\ display_pc' = "idle"
    /\ UNCHANGED <<batchVars, cancelVars, fsVars, procVars, histVars, sink,
                   resVars, cfgVars, bagVars, cleanVars, probeVars, extraVars,
                   display_call, refresh_pc, frame, reported>>

\* The update thread wakes up and builds the session table: it reads the
\* counters.
RefreshSessionTable ==
    /\ refresh_pc = "sleep"
    /\ frame' = [frame EXCEPT !.completed = session_stats.completed_files,
                              !.failed = session_stats.failed_files]
    /\ refresh_pc' = "size"
    /\ UNCHANGED <<batchVars, cancelVars, fsVars, procVars, histVars, sink,
                   resVars, cfgVars, bagVars, cleanVars, probeVars, extraVars,
                   session_stats, display_pc, display_call, reported>>

\* The update thread builds the size table: it reads the totals, shows the
\* frame and sleeps.
RefreshSizeTable ==
    /\ refresh_pc = "size"
    /\ frame' = [frame EXCEPT !.total_original = session_stats.total_original_size_mb,
                              !.total_encoded = session_stats.total_encoded_size_mb]
    /\ refresh_pc' = "sleep"
    /\ UNCHANGED <<batchVars, cancelVars, fsVars, procVars, histVars, sink,
                   resVars, cfgVars, bagVars, cleanVars, probeVars, extraVars,
                   session_stats, display_pc, display_call, reported>>

\* A batch of n jobs inside display_context: initialize_session has set
\* total_files and the update thread runs.  (The engine's own steps are not
\* followed here.)
DisplayInit ==
    /\ BatchInit
    /\ ~delete_originals
    /\ \A j \in 1..n : srcExists[j] /\ ~outFile[j].exists
    /\ ResIdle
    /\ CfgIdle
    /\ BagIdle
    /\ CleanIdle
    /\ ProbeIdle
    /\ ExtraIdle
    /\ session_stats = [NoSessionStats EXCEPT !.total_files = n]
    /\ display_pc = "idle"
    /\ display_call = NoCall
    /\ refresh_pc = "sleep"
    /\ frame = NoFrame
    /\ reported = <<>>

DisplayNext ==
    \/ CompleteFileProcessingEnter
    \/ CompleteCount
    \/ CompleteOriginal
    \/ CompleteEncoded
    \/ RefreshSessionTable
    \/ RefreshSizeTable

DisplaySpec == DisplayInit /\ [][DisplayNext]_vars

\* ============================================================ probing retries
\* max_retries of both retry loops.
max_retries == 3

\* time.sleep(0.5) of both retry loops, in milliseconds.
Backoff == 500

Attempted(outcome) == [kind |-> "attempt", outcome |-> outcome, ms |-> 0]

Slept(ms) == [kind |-> "sleep", outcome |-> "none", ms |-> ms]

\* discover_video_files builds a VideoFile for the next file: its
\* _load_file_info starts the retry loop of the descriptor probe.
LoadFileInfo ==
    /\ probe_pc = "idle"
    /\ \E f \in 1..n :
          /\ is_valid[f] = "unknown"
          /\ \A g \in 1..(f - 1) : is_valid[g] # "unknown"
          /\ probe_op' = [name |-> "load_file_info", file |-> f]
    /\ attempt' = 0
    /\ probe_pc' = "try"
    /\ probe_log' = <<>>
    /\ UNCHANGED <<batchVars, cancelVars, fsVars, procVars, histVars, sink,
                   resVars, cfgVars, bagVars, cleanVars, dispVars, extraVars, is_valid, resolution_info>>

\* One attempt of ffmpeg.probe in _load_file_info: a probe ends the loop;
\* an error raises at the last attempt (the file is marked invalid) and
\* goes to the sleep otherwise.
LoadFileInfoAttempt ==
    /\ probe_pc = "try"
    /\ probe_op.name = "load_file_info"
    /\ \E outcome \in {"probe", "raise"} :
          /\ probe_log' = Append(probe_log, Attempted(outcome))
          /\ IF outcome = "probe"
               THEN /\ is_valid' = [is_valid EXCEPT ![probe_op.file] = "valid"]
                    /\ probe_pc' = "idle"
               ELSE IF attempt = max_retries - 1
                 THEN /\ is_valid' = [is_valid EXCEPT ![probe_op.file] = "invalid"]
                      /\ probe_pc' = "idle"
                 ELSE /\ probe_pc' = "sleep"
                      /\ UNCHANGED is_valid
    /\ UNCHANGED <<batchVars, cancelVars, fsVars, procVars, histVars, sink,
                   resVars, cfgVars, bagVars, cleanVars, dispVars, extraVars,
                   probe_op, attempt, resolution_info>>

\* time.sleep(0.5), then the next iteration of the loop.
RetrySleep ==
    /\ probe_pc = "sleep"
    /\ probe_log' = Append(probe_log, Slept(Backoff))
    /\ attempt' = attempt + 1
    /\ probe_pc' = "try"
    /\ UNCHANGED <<batchVars, cancelVars, fsVars, procVars, histVars, sink,
                   resVars, cfgVars, bagVars, cleanVars, dispVars, extraVars,
                   probe_op, is_valid, resolution_info>>

\* encode_single_file of a valid file reaches "Get resolution information
\* with retry".
ResolutionLookup ==
    /\ probe_pc = "idle"
    /\ \A g \in 1..n : is_valid[g] # "unknown"
    /\ \E f \in 1..n :
          /\ is_valid[f] = "valid"
          /\ resolution_info[f] = "none"
          /\ \A g \in 1..(f - 1) : is_valid[g] = "valid" => resolution_info[g] # "none"
          /\ probe_op' = [name |-> "resolution_lookup", file |-> f]
    /\ attempt' = 0
    /\ probe_pc' = "try"
    /\ probe_log' = <<>>
    /\ UNCHANGED <<batchVars, cancelVars, fsVars, procVars, histVars, sink,
                   resVars, cfgVars, bagVars, cleanVars, dispVars, extraVars, is_valid, resolution_info>>

\* One attempt of get_resolution_info in encode_single_file.  A result
\* without 'error' ends the loop.  The error dict (the probe inside
\* get_video_resolution failed) goes straight to the next iteration, and
\* after the last one the check behind the loop raises.  An exception out
\* of get_resolution_info raises at the last attempt and goes to the sleep
\* otherwise.
ResolutionLookupAttempt ==
    /\ probe_pc = "try"
    /\ probe_op.name = "resolution_lookup"
    /\ \E outcome \in {"info", "error", "raise"} :
          /\ probe_log' = Append(probe_log, Attempted(outcome))
          /\ CASE outcome = "info" ->
                    /\ resolution_info' = [resolution_info EXCEPT ![probe_op.file] = "info"]
                    /\ probe_pc' = "idle"
                    /\ UNCHANGED attempt
               [] outcome = "error" ->
                    IF attempt = max_retries - 1
                      THEN /\ resolution_info' =
                                 [resolution_info EXCEPT ![probe_op.file] = "failed"]
                           /\ probe_pc' = "idle"
                           /\ UNCHANGED attempt
                      ELSE /\ attempt' = attempt + 1
                           /\ UNCHANGED <<resolution_info, probe_pc>>
               [] outcome = "raise" ->
                    IF attempt = max_retries - 1
                      THEN /\ resolution_info' =
                                 [resolution_info EXCEPT ![probe_op.file] = "failed"]
                           /\ probe_pc' = "idle"
                           /\ UNCHANGED attempt
                      ELSE /\ probe_pc' = "sleep"
                           /\ UNCHANGED <<resolution_info, attempt>>
    /\ UNCHANGED <<batchVars, cancelVars, fsVars, procVars, histVars, sink,
                   resVars, cfgVars, bagVars, cleanVars, dispVars, extraVars,
                   probe_op, is_valid>>

\* Discovery of n files followed by the resolution lookups of the valid
\* ones.  (What the engine does with them is not followed here.)
ProbeInit ==
    /\ BatchInit
    /\ ~delete_originals
    /\ \A j \in 1..n : srcExists[j] /\ ~outFile[j].exists
    /\ PolicyInit

ProbeNext ==
    \/ LoadFileInfo
    \/ LoadFileInfoAttempt
    \/ RetrySleep
    \/ ResolutionLookup
    \/ ResolutionLookupAttempt

ProbeSpec == ProbeInit /\ [][ProbeNext]_vars

\* ======================================================== the failure reason
\* The kinds of line of a status stream: its length in characters and
\* whether its lower-cased text holds one of 'error', 'failed', 'invalid',
\* 'unsupported'.
StderrLines ==
    {[text |-> "frame=  100 fps= 25 time=00:00:04.00", len |-> 36, keyword |-> FALSE],
     [text |-> "Error opening output file", len |-> 25, keyword |-> TRUE],
     [text |-> "Conversion failed!", len |-> 18, keyword |-> TRUE],
     [text |-> "configuration", len |-> 150, keyword |-> FALSE]}

\* The streams explored.
StderrStreams == UNION {[1..k -> StderrLines] : k \in 0..MaxLines}

\* [:200]
ReasonChars == 200

\* Offsets of line k in the stream (the lines joined by '\n'), from 1.
RECURSIVE LineStart(_, _)
LineStart(lines, k) ==
    IF k = 1 THEN 1 ELSE LineStart(lines, k - 1) + lines[k - 1].len + 1

LineEnd(lines, k) == LineStart(lines, k) + lines[k].len - 1

\* len(stderr_output)
StreamLen(lines) == IF lines = <<>> THEN 0 ELSE LineEnd(lines, Len(lines))

\* A part of the stream as the reason.
Text(first, last, ellipsis) ==
    [kind |-> "text", first |-> first, last |-> last, ellipsis |-> ellipsis]

\* encode_single_file, except ffmpeg.Error: the first line with a keyword
\* (the loop breaks on it); without one the first 200 characters and "..."
\* if the stream is longer, else the stream.  An empty e.stderr becomes
\* 'No error details available', which holds 'error' itself.
meaningful_error(lines) ==
    LET hits == {k \in 1..Len(lines) : lines[k].keyword} IN
      IF lines = <<>>
        THEN [kind |-> "no_details", first |-> 0, last |-> 0, ellipsis |-> FALSE]
      ELSE IF hits # {}
        THEN LET k == CHOOSE h \in hits : \A g \in hits : h <= g
             IN Text(LineStart(lines, k), LineEnd(lines, k), FALSE)
      ELSE IF StreamLen(lines) > ReasonChars
        THEN Text(1, ReasonChars, TRUE)
      ELSE Text(1, StreamLen(lines), FALSE)

\* _encode_with_progress, return_code != 0: what process.stderr.read()
\* still finds, whole; "FFmpeg failed with return code N" when nothing is
\* left.
error_message(lines, read) ==
    IF read < Len(lines)
      THEN Text(LineStart(lines, read + 1), StreamLen(lines), FALSE)
      ELSE [kind |-> "return_code", first |-> 0, last |-> 0, ellipsis |-> FALSE]

\* parse_progress reads one more line of the stream.
ReadStderrLine ==
    /\ encode_path = "progress"
    /\ error_reason = NoReason
    /\ consumed < Len(stderr_lines)
    /\ consumed' = consumed + 1
    /\ UNCHANGED <<engineVars, sideVars, throttleVars, laterVars, stderr_lines, encode_path, error_reason>>

\* output_stream.run raised ffmpeg.Error: the encoder exited non-zero.
RunRaisesFfmpegError ==
    /\ encode_path = "run"
    /\ error_reason = NoReason
    /\ error_reason' = meaningful_error(stderr_lines)
    /\ UNCHANGED <<engineVars, sideVars, throttleVars, laterVars, stderr_lines, consumed, encode_path>>

\* _encode_with_progress found a non-zero return code.
ReturnCodeNonZero ==
    /\ encode_path = "progress"
    /\ error_reason = NoReason
    /\ error_reason' = error_message(stderr_lines, consumed)
    /\ UNCHANGED <<engineVars, sideVars, throttleVars, laterVars, stderr_lines, consumed, encode_path>>

\* An encoder that is going to exit non-zero, on either path, with any of
\* the streams.  (The engine's own steps are not followed here.)
ReasonInit ==
    /\ BatchInit
    /\ n = 1
    /\ ~delete_originals
    /\ srcExists[1]
    /\ ~outFile[1].exists
    /\ ResIdle /\ CfgIdle /\ BagIdle /\ CleanIdle /\ DispIdle /\ ProbeIdle
    /\ stderr_lines \in StderrStreams
    /\ consumed = 0
    /\ encode_path \in {"run", "progress"}
    /\ error_reason = NoReason
    /\ ThrottleIdle
    /\ LaterIdle

ReasonNext ==
    \/ ReadStderrLine
    \/ RunRaisesFfmpegError
    \/ ReturnCodeNonZero

ReasonSpec == ReasonInit /\ [][ReasonNext]_vars

\* ===================================================== progress values in time
\* One tick of the clock, in ms.
TickMs == 50

\* "if current_time - last_update_time >= 0.1", in ms.
Throttle == 100

Emitted(v, at) == [v |-> v, at |-> at]

\* Time passes.
Tick ==
    /\ pc = "supervise"
    /\ now < MaxTicks * TickMs
    /\ now' = now + TickMs
    /\ UNCHANGED <<engineVars, sideVars, reasonVars, laterVars,
                   last_update_time, lines_read, parsed, put_times, emitted>>

\* Variant of ParseStatusLine that queues a value for every status line.
ParseStatusLineUnthrottled ==
    /\ reader = "running"
    /\ proc = "running"
    /\ ~stop_event
    /\ lines_read < MaxStatusLines
    /\ lines_read' = lines_read + 1
    /\ \E e \in ElapsedMarks :
          /\ parsed' = parsed \cup {e}
          /\ progress_queue' =
                Append(progress_queue,
                       Msg("progress", IF duration > 0
                                         THEN ProgressPercent(e, duration)
                                         ELSE -1))
          /\ last_update_time' = now
          /\ put_times' = Append(put_times, now)
    /\ UNCHANGED <<batchVars, cancelVars, fsVars, proc, reader, stop_event, duration,
                   last_progress, updates, idle_tick, histVars, sink,
                   sideVars, reasonVars, laterVars, now, emitted>>

\* parse_progress reads a status line with an elapsed-time marker.  Outside
\* the throttle window it queues min(100, elapsed / duration * 100), or -1
\* when the duration is unknown, and restarts the window; inside the window
\* the line is dropped.
ParseStatusLine ==
    /\ reader = "running"
    /\ proc = "running"
    /\ ~stop_event
    /\ lines_read < MaxStatusLines
    /\ lines_read' = lines_read + 1
    /\ \E e \in ElapsedMarks :
          /\ parsed' = parsed \cup {e}
          /\ IF now - last_update_time >= Throttle
               THEN /\ progress_queue' =
                          Append(progress_queue,
                                 Msg("progress", IF duration > 0
                                                   THEN ProgressPercent(e, duration)
                                                   ELSE -1))
                    /\ last_update_time' = now
                    /\ put_times' = Append(put_times, now)
               ELSE UNCHANGED <<progress_queue, last_update_time, put_times>>
    /\ UNCHANGED <<batchVars, cancelVars, fsVars, proc, reader, stop_event, duration,
                   last_progress, updates, idle_tick, histVars, sink,
                   sideVars, reasonVars, laterVars, now, emitted>>

\* Variant of DequeueUpdate that hands the indeterminate signal on to the
\* sink as it is.
DequeueUpdatePassesSignal ==
    /\ pc = "supervise"
    /\ progress_queue # <<>>
    /\ LET update == Head(progress_queue) IN
         /\ progress_queue' = Tail(progress_queue)
         /\ IF update.kind = "done"
              THEN /\ pc' = "wait"
                   /\ UNCHANGED <<last_progress, emitted, sink>>
              ELSE /\ last_progress' = update.v
                   /\ emitted' = emitted \cup {Emitted(last_progress', "update")}
                   /\ sink' = <<"update", i>>
                   /\ pc' = pc
    /\ UNCHANGED <<n, delete_originals, i, processing_stats, result, progress_callback,
                   cancelVars, fsVars, proc, reader, stop_event, duration, updates,
                   idle_tick, histVars, sideVars, reasonVars, laterVars,
                   now, last_update_time, lines_read, parsed, put_times>>

\* progress_queue.get returned: 'done' leaves the loop; a number becomes
\* last_progress (-1 raises it by one, up to 99) and last_progress goes to
\* the display and the callback.
DequeueUpdate ==
    /\ pc = "supervise"
    /\ progress_queue # <<>>
    /\ LET update == Head(progress_queue) IN
         /\ progress_queue' = Tail(progress_queue)
         /\ IF update.kind = "done"
              THEN /\ pc' = "wait"
                   /\ UNCHANGED <<last_progress, emitted, sink>>
              ELSE /\ last_progress' = IF update.v = -1
                                         THEN Min(99, last_progress + 1)
                                         ELSE update.v
                   /\ emitted' = emitted \cup {Emitted(last_progress', "update")}
                   /\ sink' = <<"update", i>>
                   /\ pc' = pc
    /\ UNCHANGED <<n, delete_originals, i, processing_stats, result, progress_callback,
                   cancelVars, fsVars, proc, reader, stop_event, duration, updates,
                   idle_tick, histVars, sideVars, reasonVars, laterVars,
                   now, last_update_time, lines_read, parsed, put_times>>

\* progress_queue.get timed out: the loop is left if the process has
\* exited; otherwise last_progress is shown again.
QueueWaitTimeout ==
    /\ pc = "supervise"
    /\ progress_queue = <<>>
    /\ IF proc # "running"
         THEN /\ pc' = "wait"
              /\ UNCHANGED <<emitted, sink>>
         ELSE /\ emitted' = emitted \cup {Emitted(last_progress, "idle")}
              /\ sink' = <<"update", i>>
              /\ pc' = pc
    /\ UNCHANGED <<n, delete_originals, i, processing_stats, result, progress_callback,
                   cancelVars, fsVars, procVars, histVars, sideVars, reasonVars, laterVars,
                   now, last_update_time, lines_read, parsed, put_times>>

\* After the loop: a zero return code sends 100.0 to the callback and the
\* display; a non-zero one raises.
ReturnCodeCheck ==
    /\ pc = "wait"
    /\ proc # "running"
    /\ stop_event' = TRUE
    /\ IF proc = "exit0"
         THEN /\ emitted' = emitted \cup {Emitted(100, "complete")}
              /\ sink' = <<"update", i>>
              /\ pc' = "verify"
         ELSE /\ pc' = "stats"
              /\ UNCHANGED <<emitted, sink>>
    /\ UNCHANGED <<n, delete_originals, i, processing_stats, result, progress_callback,
                   cancelVars, fsVars, proc, progress_queue, reader, duration,
                   last_progress, updates, idle_tick, histVars, sideVars, reasonVars, laterVars,
                   now, last_update_time, lines_read, parsed, put_times>>

\* The only job of a batch right after Popen: the encoder runs, the
\* duration is known or not, the reader thread has just started.
ThrottleInit ==
    /\ n = 1
    /\ delete_originals = FALSE
    /\ pc = "supervise"
    /\ i = 1
    /\ cancel_event = FALSE
    /\ listener = "running"
    /\ processing_stats = [total_files |-> 1, processed_files |-> 0, failed_files |-> 0,
                           total_original_size |-> size_mb(1), total_encoded_size |-> 0,
                           failed_file_paths |-> <<>>, cancelled |-> FALSE]
    /\ srcExists = [j \in 1..1 |-> TRUE]
    /\ outFile = [j \in 1..1 |-> NoFile]
    /\ result = NoResult
    /\ proc = "running"
    /\ progress_queue = <<>>
    /\ reader = "running"
    /\ stop_event = FALSE
    /\ progress_callback = TRUE
    /\ duration \in Durations
    /\ last_progress = 0
    /\ updates = 0
    /\ idle_tick = FALSE
    /\ sink = <<"start", 1>>
    /\ started = [j \in 1..1 |-> 1]
    /\ completed = [j \in 1..1 |-> 0]
    /\ spawned = [j \in 1..1 |-> 1]
    /\ alive = {1}
    /\ results = [j \in 1..1 |-> 0]
    /\ counted = [j \in 1..1 |-> 0]
    /\ out_seen = NoFile
    /\ cleanup_failed = FALSE
    /\ cancel_reads = {}
    /\ cancelAt = [phase |-> "never", k |-> 0]
    /\ PolicyInit

ThrottleNext ==
    \/ Tick
    \/ ParseStatusLine
    \/ ParseProgressDone
    \/ ProcessExit
    \/ DequeueUpdate
    \/ QueueWaitTimeout
    \/ ReturnCodeCheck

ThrottleSpec == ThrottleInit /\ [][ThrottleNext]_vars

\* ======================================================== hardware detection
\* A detected GPU: its vendor and whether the encoder of that vendor can
\* be used (supports_nvenc, supports_vce or supports_qsv; only the flag of
\* the GPU's own vendor is ever set).
Gpus == [vendor : {"NVIDIA", "AMD", "Intel", "Unknown"}, usable : BOOLEAN]
           \ {[vendor |-> "Unknown", usable |-> TRUE]}

\* The loop of get_recommended_encoder from position k on, rec being what
\* was recommended so far: a usable NVIDIA or AMD GPU sets the
\* recommendation and breaks, a usable Intel GPU sets it and the loop goes
\* on.
RECURSIVE recommend_from(_, _, _)
recommend_from(list, k, rec) ==
    IF k > Len(list) THEN rec
    ELSE IF list[k].vendor = "NVIDIA" /\ list[k].usable
      THEN [hw_accel |-> "cuda", video_codec |-> "hevc_nvenc"]
    ELSE IF list[k].vendor = "AMD" /\ list[k].usable
      THEN [hw_accel |-> "auto", video_codec |-> "hevc_amf"]
    ELSE IF list[k].vendor = "Intel" /\ list[k].usable
      THEN recommend_from(list, k + 1, [hw_accel |-> "qsv", video_codec |-> "hevc_qsv"])
    ELSE recommend_from(list, k + 1, rec)

\* HardwareDetector.get_recommended_encoder
get_recommended_encoder(list) ==
    recommend_from(list, 1, [hw_accel |-> "none", video_codec |-> "libx265"])

\* _detect_gpus appends one more GPU to the list.
DetectGpu ==
    /\ recommended_encoder = NoRecommendations
    /\ Len(gpus) < MaxGpus
    /\ \E gpu \in Gpus : gpus' = Append(gpus, gpu)
    /\ UNCHANGED <<engineVars, sideVars, reasonVars, throttleVars, sessionVars,
                   recommended_encoder>>

GetRecommendedEncoder ==
    /\ recommended_encoder = NoRecommendations
    /\ recommended_encoder' = get_recommended_encoder(gpus)
    /\ UNCHANGED <<engineVars, sideVars, reasonVars, throttleVars, sessionVars, gpus>>

\* HardwareDetector.__init__ before the detection; the engine stays idle.
HwInit ==
    /\ BatchInit
    /\ n = 1
    /\ ~delete_originals
    /\ srcExists[1]
    /\ ~outFile[1].exists
    /\ PolicyInit

HwNext == DetectGpu \/ GetRecommendedEncoder

HwSpec == HwInit /\ [][HwNext]_vars

\* ============================================ batches on the same encoder
\* What the batches on one VideoEncoder share: the encoder's cancel flag
\* and processing_stats, and its one ProgressDisplay (created in __init__).
\* A batch is reduced to what these see of it: how many jobs it has, which
\* of them succeed, and when 'q' is pressed.
sessionRest == <<engineVars, sideVars, reasonVars, throttleVars, hwVars>>

\* ProgressDisplay.initialize_session: total_files and the start time are
\* set and file_stats is rebuilt; the other fields of session_stats and
\* _cancel_scheduled are not assigned.
initialize_session(display, total_files) ==
    [display EXCEPT !.total_files = total_files]

\* encode_batch up to the loop: initialize_session, the reset of
\* processing_stats, and _start_cancel_listener, which clears the flag.
EncodeBatchEnter ==
    /\ batch_pc = "idle"
    /\ batches < MaxBatches
    /\ \E total_files \in 1..MaxJobs :
          /\ progress_display' = initialize_session(progress_display, total_files)
          /\ batch_stats' = [total_files |-> total_files, processed_files |-> 0,
                             failed_files |-> 0, cancelled |-> FALSE]
    /\ batch_cancel_event' = FALSE
    /\ batch_i' = 1
    /\ batches' = batches + 1
    /\ batch_pc' = "loop"
    /\ UNCHANGED <<sessionRest, final_summary>>

\* The head of the loop: it ends when the files are exhausted or the flag
\* is set.
EncodeBatchLoopHead ==
    /\ batch_pc = "loop"
    /\ batch_pc' = IF batch_i > batch_stats.total_files \/ batch_cancel_event
                     THEN "finally" ELSE "encode"
    /\ UNCHANGED <<sessionRest, batches, batch_i, batch_stats, batch_cancel_event,
                   progress_display, final_summary>>

\* One job: the counters of processing_stats and, through
\* complete_file_processing, those of the display.
EncodeBatchJob ==
    /\ batch_pc = "encode"
    /\ \E success \in BOOLEAN :
          IF success
          THEN /\ batch_stats' = [batch_stats EXCEPT !.processed_files = @ + 1]
               /\ progress_display' = [progress_display EXCEPT !.completed_files = @ + 1]
          ELSE /\ batch_stats' = [batch_stats EXCEPT !.failed_files = @ + 1]
               /\ progress_display' = [progress_display EXCEPT !.failed_files = @ + 1]
    /\ batch_i' = batch_i + 1
    /\ batch_pc' = "loop"
    /\ UNCHANGED <<sessionRest, batches, batch_cancel_event, final_summary>>

\* The listener reads 'q': it sets the flag and tells the display.
ListenerSchedulesCancel ==
    /\ batch_pc \in {"loop", "encode"}
    /\ ~batch_cancel_event
    /\ batch_cancel_event' = TRUE
    /\ progress_display' = [progress_display EXCEPT !.cancel_scheduled = TRUE]
    /\ UNCHANGED <<sessionRest, batches, batch_pc, batch_i, batch_stats, final_summary>>

\* The finally clause: the listener is stopped, the stats are marked
\* cancelled when the flag is set, and show_final_summary shows what the
\* display holds.
EncodeBatchFinally ==
    /\ batch_pc = "finally"
    /\ batch_stats' = [batch_stats EXCEPT !.cancelled = batch_cancel_event]
    /\ final_summary' = [shown |-> TRUE,
                         cancelled |-> progress_display.cancel_scheduled,
                         total_files |-> progress_display.total_files,
                         completed_files |-> progress_display.completed_files,
                         failed_files |-> progress_display.failed_files]
    /\ batch_pc' = "idle"
    /\ UNCHANGED <<sessionRest, batches, batch_i, batch_cancel_event, progress_display>>

\* The encoder after construction; no batch was run.
SessionInit ==
    /\ BatchInit
    /\ n = 1
    /\ ~delete_originals
    /\ srcExists[1]
    /\ ~outFile[1].exists
    /\ PolicyInit

SessionNext ==
    \/ EncodeBatchEnter
    \/ EncodeBatchLoopHead
    \/ EncodeBatchJob
    \/ ListenerSchedulesCancel
    \/ EncodeBatchFinally

SessionSpec == SessionInit /\ [][SessionNext]_vars

\* ================================================================ claims
Done == processing_stats.processed_files + processing_stats.failed_files

NotAttempted(j) == started[j] = 0 /\ spawned[j] = 0

\* C1 as stated: if 'q' is pressed after job k has completed and before job
\* k+1 starts (before its start event), then when encode_batch returns
\* processed_files + failed_files = k, cancelled is set and none of the jobs
\* k+1..n was attempted.
C1_CancelBeforeNextStart ==
    (pc = "returned" /\ cancelAt.phase \in {"boundary", "window"})
        => /\ Done = cancelAt.k
           /\ processing_stats.cancelled
           /\ \A j \in Jobs : j > cancelAt.k => NotAttempted(j)

\* C1 amended: the guarantee holds when the flag is set before the loop
\* reads it for job k+1; a flag set between that read and the start event
\* of job k+1 lets job k+1 run, and the loop stops before job k+2.
C1_CancelBeforeLoopCheck ==
    /\ (pc = "returned" /\ cancelAt.phase = "boundary")
          => /\ Done = cancelAt.k
             /\ processing_stats.cancelled
             /\ \A j \in Jobs : j > cancelAt.k => NotAttempted(j)
    /\ (pc = "returned" /\ cancelAt.phase = "window")
          => /\ Done = cancelAt.k + 1
             /\ processing_stats.cancelled
             /\ \A j \in Jobs : j > cancelAt.k + 1 => NotAttempted(j)

C1_Witness ==
    /\ pc = "returned"
    /\ cancelAt.phase = "boundary"
    /\ cancelAt.k >= 1
    /\ cancelAt.k < n
    /\ processing_stats.cancelled

C3_CountersWithinTotal ==
    /\ Done <= processing_stats.total_files
    /\ (pc = "returned" /\ ~cancel_event) => Done = processing_stats.total_files

C3_Witness ==
    /\ pc = "returned"
    /\ ~cancel_event
    /\ processing_stats.processed_files >= 1
    /\ processing_stats.failed_files >= 1

\* C4: a job is bounded by a wall-time ceiling: an encoder that does not
\* exit on its own is eventually terminated or killed by the engine, so a
\* running encoder always leads to one that no longer runs.
C4_HardCeiling == (proc = "running") ~> (proc # "running")

\* The job was launched and encode_single_file has returned its result.
Launched == pc \in {"stats", "complete"} /\ spawned[i] = 1

\* Exit code zero, output present, not empty, and holding a video stream.
FourChecks ==
    /\ proc = "exit0"
    /\ out_seen.exists
    /\ out_seen.size > 0
    /\ out_seen.video

\* C5 as stated: a launched job succeeds exactly when the exit code is zero,
\* the output exists, is not empty and holds a video stream; otherwise it
\* fails with an error recorded.
C5_SuccessIffFourChecks ==
    Launched => /\ result.success <=> FourChecks
                /\ ~result.success => result.error \notin {"none", "unset"}

\* C5 amended: success implies the four checks, and the four checks imply
\* success unless the supervision itself raised (a progress-parsing error
\* or a wait timeout), which fails the job whatever the encoder produced.
C5_SuccessIffChecksAndSupervision ==
    Launched => /\ result.success <=>
                      (FourChecks /\ result.error \notin {"progress_parse", "wait_timeout"})
                /\ ~result.success => result.error \notin {"none", "unset"}

C5_Witness ==
    /\ Launched
    /\ FourChecks
    /\ result.success

\* encode_single_file has returned a failed result for the current job.
FailedInEncode ==
    /\ pc \in {"stats", "complete"}
    /\ ~result.success
    /\ result.error # "display"

C7_FailureIsolated ==
    /\ \A j \in Jobs :
          (results[j] >= 1 /\ j < n /\ started[j + 1] = 0 /\ ~cancel_event)
             => \/ pc \in {"stats", "complete"} /\ i = j
                \/ pc \in {"loop_top", "start"} /\ i = j + 1
    /\ (pc = "returned" /\ ~cancel_event) => \A j \in Jobs : started[j] = 1

\* Job 1 failed and job 2 was attempted.
C7_Witness ==
    /\ n >= 2
    /\ processing_stats.failed_files >= 1
    /\ Len(processing_stats.failed_file_paths) >= 1
    /\ processing_stats.failed_file_paths[1] = 1
    /\ started[2] = 1

\* C8: a source file disappears only in the statistics step of its own job,
\* with delete_originals set and a successful result; and that step counts
\* the job by its result alone and goes on to the completion event, whether
\* or not the removal worked.
C8_SourceRemovedOnlyOnSuccess ==
    [][/\ \A j \in Jobs :
             (srcExists[j] /\ ~srcExists'[j])
                => (delete_originals /\ pc = "stats" /\ i = j /\ result.success)
       /\ (pc = "stats" /\ pc' # "stats")
             => /\ pc' = "complete"
                /\ processing_stats'.processed_files =
                      processing_stats.processed_files + (IF result.success THEN 1 ELSE 0)
                /\ processing_stats'.failed_files =
                      processing_stats.failed_files + (IF result.success THEN 0 ELSE 1)]_vars

\* The removal of the source failed and the job is counted as processed.
C8_Witness ==
    /\ pc = "complete"
    /\ delete_originals
    /\ result.success
    /\ srcExists[i]
    /\ counted[i] = 1
    /\ processing_stats.processed_files >= 1

\* C9: every job the loop has started and left has exactly one result and
\* raised the counters by exactly 1 in all; a job not started has no result
\* and raised none; the counters add up to the jobs counted.
C9_OneResultOneCount ==
    /\ \A j \in Jobs :
          /\ results[j] <= 1
          /\ counted[j] <= results[j]
          /\ started[j] = 0 => results[j] = 0
          /\ (j < i \/ pc = "returned") => (started[j] = 1 => (results[j] = 1 /\ counted[j] = 1))
    /\ Done = SumTo(counted, n)
    /\ Len(processing_stats.failed_file_paths) = processing_stats.failed_files

C9_Witness ==
    /\ pc = "returned"
    /\ n >= 2
    /\ counted[1] = 1
    /\ started[2] = 0
    /\ Done = 1

\* C10: the display gets one start event and then one completion event for
\* every job attempted, none for the others, and a progress update only for
\* a job that has its start event and not yet its completion event.
C10_StartThenComplete ==
    /\ \A j \in Jobs :
          /\ started[j] <= 1
          /\ completed[j] <= started[j]
          /\ (j < i \/ pc = "returned") => completed[j] = started[j]
          /\ j > i => (started[j] = 0 /\ completed[j] = 0)
    /\ sink[1] = "update" => (started[sink[2]] = 1 /\ completed[sink[2]] = 0)

C10_Witness ==
    /\ pc = "returned"
    /\ n >= 2
    /\ started[1] = 1
    /\ completed[1] = 1
    /\ started[2] = 0
    /\ completed[2] = 0

\* C11: a failure of the progress display on an event of a job never
\* becomes that job's outcome and never keeps its encoder from being run:
\* no job ends with the display's failure as its result.
C11_SinkFailureNonFatal ==
    pc \in {"stats", "complete"} => result.error # "display"

\* C12: within one batch the encoder is spawned at most once per job,
\* whatever the way the job failed.
C12_SpawnedAtMostOnce == \A j \in Jobs : spawned[j] <= 1

\* The encoder of the current job exited with a non-zero code, the job has
\* its failed result, and the encoder was spawned once.
C12_Witness ==
    /\ pc \in {"stats", "complete"}
    /\ result.error = "encode_failed"
    /\ proc = "exit1"
    /\ spawned[i] = 1

\* C13: at most one encoder process is alive at any moment of a batch, and
\* none is alive when the engine is about to spawn the next one.
C13_OneEncoderAlive ==
    /\ Cardinality(alive) <= 1
    /\ pc \in {"loop_top", "start", "prepare", "spawn"} => alive = {}

\* The encoder of job 2 is running after job 1, whose encoder was spawned,
\* ended as a failed job.
C13_Witness ==
    /\ i = 2
    /\ alive = {2}
    /\ spawned[1] = 1
    /\ processing_stats.failed_files = 1

\* C14: resizing is needed exactly when the longer side exceeds the long
\* edge of the preset; when it does not, the target is the source itself,
\* odd dimensions included, and no scale filter is produced.
C14_NoResizeKeepsSource ==
    res_info.valid =>
        LET w == current_resolution.width
            h == current_resolution.height
        IN  /\ res_info.needs_resize <=> (Max(w, h) > target_longest_side)
            /\ Max(w, h) <= target_longest_side
                  => /\ res_info.target = current_resolution
                     /\ ~res_info.scale_filter.set

\* A source with an odd width that fits the preset was looked at.
C14_Witness ==
    /\ res_info.valid
    /\ ~res_info.needs_resize
    /\ current_resolution.width % 2 = 1
    /\ current_resolution.height % 2 = 1
    /\ longest_side(current_resolution) = target_longest_side - 1
    /\ res_info.target = current_resolution

Even(x) == x - (x % 2)

Abs(x) == IF x < 0 THEN -x ELSE x

\* C15: when the longer side exceeds the long edge L of the preset, the
\* target is (floor(w*L/max), floor(h*L/max)), each made even by taking 1
\* off an odd value: both are even, the longer target side is L, and each
\* is within 2 of the exact value w*L/max, h*L/max.
C15_ScaledToLongEdge ==
    (res_info.valid /\ longest_side(current_resolution) > target_longest_side) =>
        LET w == current_resolution.width
            h == current_resolution.height
            m == Max(w, h)
            L == target_longest_side
        IN  /\ res_info.target.width = Even((w * L) \div m)
            /\ res_info.target.height = Even((h * L) \div m)
            /\ res_info.target.width % 2 = 0
            /\ res_info.target.height % 2 = 0
            /\ longest_side(res_info.target) = L
            /\ Abs(res_info.target.width * m - w * L) <= 2 * m
            /\ Abs(res_info.target.height * m - h * L) <= 2 * m

\* The stored value is the last argument of set_crf_encoding clamped to
\* [0, 51], or of set_vbr_encoding clamped to [0.1, 10.0].
StoredValueInRange ==
    /\ config.method = "CRF" =>
          /\ 0 <= config.value
          /\ config.value <= 51 * Hundred
          /\ last_value_arg >= 51 * Hundred => config.value = 51 * Hundred
          /\ last_value_arg <= 0 => config.value = 0
    /\ config.method = "VBR" =>
          /\ Hundred \div 10 <= config.value
          /\ config.value <= 10 * Hundred

\* C16: after any sequence of set_crf_encoding / set_vbr_encoding calls the
\* stored value is within [0, 51] with the CRF method (1000 is stored as 51,
\* -5 as 0) and within [0.1, 10.0] with the VBR method, and building the
\* parameters leaves the stored configuration as it was.
C16_ValueClamped ==
    /\ []StoredValueInRange
    /\ [][params' # params => config' = config]_vars

\* A multiplier of 1000 was given, 10.0 is stored, and the parameters were
\* built from it.
C16_Witness ==
    /\ config.method = "VBR"
    /\ last_value_arg = 100000
    /\ config.value = 10 * Hundred
    /\ params.status = "ok"
    /\ params.method = "VBR"
    /\ params.value = config.value

C18_MissingBitrateFails ==
    (params.method = "VBR" /\ params.original_bitrate.kind # "int") =>
        /\ params.status = "error"
        /\ params.error \in {"bitrate_required", "invalid_bitrate"}
        /\ params.b_v = NoParams.b_v
        /\ ~result.success
        /\ result.error = "params"
        /\ pc = "idle"

\* The parameters were asked for with the VBR method and a bitrate that is
\* not a number, and the job failed.
C18_Witness ==
    /\ params.method = "VBR"
    /\ params.original_bitrate.kind = "text"
    /\ params.status = "error"
    /\ result = Failure("params")

\* C19: whenever hw_accel is unset the codec id is libx264 or libx265.
C19_NoHardwareIdWithoutAccel ==
    config.hw_accel = "none" => config.video_codec \in {"libx264", "libx265"}

\* Without hardware acceleration the codec type was switched to H.264.
C19_Witness ==
    /\ config.hw_accel = "none"
    /\ config.codec_type = "H264"
    /\ config.video_codec = "libx264"

\* C20: the codec id is the one derived from the codec type and the
\* configured hardware acceleration.
C20_CodecDerived ==
    config.video_codec =
        CASE config.hw_accel = "cuda" ->
                 IF config.codec_type = "H264" THEN "h264_nvenc" ELSE "hevc_nvenc"
          [] config.hw_accel = "auto" ->
                 IF config.codec_type = "H264" THEN "h264_amf" ELSE "hevc_amf"
          [] config.hw_accel = "qsv" ->
                 IF config.codec_type = "H264" THEN "h264_qsv" ELSE "hevc_qsv"
          [] OTHER ->
                 IF config.codec_type = "H264" THEN "libx264" ELSE "libx265"

\* Two builds in a row that both returned.
TwoBuilds == built.status = "ok" /\ prev_built.status = "ok"

\* C21 as stated: for a fixed codec id the tuning bundle is the same for
\* every encoding method and value.
C21_BundleByCodecAlone ==
    (TwoBuilds /\ built.config.video_codec = prev_built.config.video_codec)
        => built.bundle = prev_built.bundle

\* C21 as amended: for a fixed codec id the tuning bundle has the same keys
\* and, 'rc' apart, the same values for every method and value; 'rc' (of
\* the NVENC and AMF bundles) is fixed by the codec id and the method.
C21_BundleByCodecAndMethod ==
    (TwoBuilds /\ built.config.video_codec = prev_built.config.video_codec) =>
        /\ DOMAIN built.bundle = DOMAIN prev_built.bundle
        /\ \A k \in DOMAIN built.bundle \ {"rc"} : built.bundle[k] = prev_built.bundle[k]
        /\ built.config.method = prev_built.config.method
              => built.bundle = prev_built.bundle
        /\ built.bundle # prev_built.bundle
              => \/ Contains(built.config.video_codec, "nvenc")
                 \/ Contains(built.config.video_codec, "amf")

\* The same NVENC encoder was built for with CRF and then with VBR.
C21_Witness ==
    /\ TwoBuilds
    /\ built.config.video_codec = "hevc_nvenc"
    /\ prev_built.config.video_codec = "hevc_nvenc"
    /\ prev_built.config.method = "CRF"
    /\ built.config.method = "VBR"
    /\ prev_built.bundle.rc = "cqp"
    /\ built.bundle.rc = "vbr"

\* C22 as stated: every key of the tuning bundle holds the bundle's value
\* in the parameters returned.
C22_BundleAppliedLast ==
    built.status = "ok" =>
        \A k \in DOMAIN built.bundle : built.video_params[k] = built.bundle[k]

\* C22 as amended: additional_params is the last layer; a key of the tuning
\* bundle holds the bundle's value unless additional_params has the key.
C22_AdditionalAppliedLast ==
    built.status = "ok" =>
        /\ \A k \in DOMAIN built.additional_params :
              built.video_params[k] = built.additional_params[k]
        /\ \A k \in DOMAIN built.bundle \ DOMAIN built.additional_params :
              built.video_params[k] = built.bundle[k]

\* A build where additional_params and the bundle both have 'level'.
C22_Witness ==
    /\ built.status = "ok"
    /\ "level" \in DOMAIN built.bundle
    /\ "level" \in DOMAIN built.additional_params
    /\ built.bundle.level = "4.1"
    /\ built.video_params.level = "5.1"
    /\ "rc" \in DOMAIN built.bundle
    /\ built.video_params.rc = built.bundle.rc

\* Two builds from the same policy and source return the same.
SameBuildSameResult ==
    (/\ TwoBuilds
     /\ built.config = prev_built.config
     /\ built.additional_params = prev_built.additional_params
     /\ built.original_bitrate = prev_built.original_bitrate
     /\ built.scale_filter = prev_built.scale_filter)
        => /\ built.video_params = prev_built.video_params
           /\ built.global_args = prev_built.global_args

HasArg(cmd, arg) == \E k \in 1..Len(cmd) : cmd[k] = arg

\* C24: the command of every encoder process the engine has started holds
\* -nostdin (no interactive input), -y (overwrite the output) and -stats or
\* -progress (progress output).
C24_CommandContract ==
    proc = "running" =>
        /\ HasArg(encoder_cmd, "-nostdin")
        /\ HasArg(encoder_cmd, "-y")
        /\ HasArg(encoder_cmd, "-stats") \/ HasArg(encoder_cmd, "-progress")

\* C25 as stated: cleanup removes an output only if it is smaller than
\* 1 KB.
C25_CleanupOnlySmall ==
    \A c \in cleaned : c.size < KB

\* C25 as amended: cleanup removes an output only if its source is in
\* failed_file_paths, or it belongs to a known file and is smaller than
\* 1 KB; every other output is left as it was.
C25_CleanupFailedOrSmall ==
    /\ \A c \in cleaned :
          \/ c.job \in Range(processing_stats.failed_file_paths)
          \/ c.job \in video_files /\ c.size < KB
    /\ [][\A j \in 1..n : outFile'[j] # outFile[j] =>
             /\ pc' = "cleaned"
             /\ outFile'[j] = NoFile
             /\ \/ j \in Range(processing_stats.failed_file_paths)
                \/ j \in video_files /\ outFile[j].size < KB]_vars

\* Cleanup removed the small output of a known file and left the 1 KB
\* output of a job that did not fail.
C25_Witness ==
    /\ pc = "cleaned"
    /\ n = 2
    /\ processing_stats.failed_file_paths = <<>>
    /\ video_files = {1, 2}
    /\ cleaned = {[job |-> 1, size |-> KB - 1]}
    /\ outFile[2] = File(KB, TRUE)

\* The sum of f over the jobs of S.
RECURSIVE SumOver(_, _)
SumOver(f, S) ==
    IF S = {} THEN 0
    ELSE LET j == CHOOSE k \in S : TRUE IN f[j] + SumOver(f, S \ {j})

\* The jobs the batch has attempted: those it has a result for.
AttemptedJobs == {j \in Jobs : results[j] > 0}

\* C26: when the batch has returned, total_original_size is the sum of the
\* original sizes of the attempted jobs; the jobs skipped after a
\* cancellation add nothing.
C26_OriginalSizeOfAttempted ==
    pc = "returned" =>
        processing_stats.total_original_size
            = SumOver([j \in Jobs |-> size_mb(j)], AttemptedJobs)

\* The jobs counted so far that are not listed as failed.
SucceededSoFar ==
    {j \in Jobs : counted[j] > 0} \ Range(processing_stats.failed_file_paths)

\* C27: total_encoded_size is the sum of the validated output sizes of the
\* jobs that succeeded so far, processed_files their number; the statistics
\* step of a failed job adds 0 and that of a successful job the size of the
\* output that was validated.
C27_EncodedSizeOfSuccesses ==
    /\ [](/\ processing_stats.total_encoded_size
                = SumOver([j \in Jobs |-> outFile[j].size], SucceededSoFar)
          /\ processing_stats.processed_files = Cardinality(SucceededSoFar))
    /\ [][(pc = "stats" /\ pc' = "complete") =>
             processing_stats'.total_encoded_size
                 = processing_stats.total_encoded_size
                     + (IF result.success THEN out_seen.size ELSE 0)]_vars

\* A success of size 2 and then a failure that left a file behind: one
\* processed, one failed, 2 in total.
C27_Witness ==
    /\ pc = "complete"
    /\ i = 2
    /\ ~result.success
    /\ out_seen.exists
    /\ out_seen.size > 0
    /\ outFile[1] = File(2, TRUE)
    /\ processing_stats.processed_files = 1
    /\ processing_stats.failed_files = 1
    /\ processing_stats.total_encoded_size = 2

\* The successful calls among those complete_file_processing has received.
Successes == SelectSeq(reported, LAMBDA c : c.success)

\* The sizes of the first k successful jobs.
RECURSIVE OriginalOf(_)
OriginalOf(k) == IF k = 0 THEN 0 ELSE Successes[k].original_size_mb + OriginalOf(k - 1)

RECURSIVE EncodedOf(_)
EncodedOf(k) == IF k = 0 THEN 0 ELSE Successes[k].encoded_size_mb + EncodedOf(k - 1)

\* C28: a frame the display update thread shows never counts a job as
\* completed while the sizes of that job are missing from the totals of the
\* same frame.
C28_NoCountWithoutSizes ==
    refresh_pc = "sleep" =>
        /\ frame.total_original >= OriginalOf(frame.completed)
        /\ frame.total_encoded >= EncodedOf(frame.completed)

\* The queue holds a progress value that has not been taken.
UndeliveredProgress ==
    \E k \in 1..Len(progress_queue) : progress_queue[k].kind = "progress"

AttemptsAt == {k \in 1..Len(probe_log) : probe_log[k].kind = "attempt"}

\* C30: the running probing operation (descriptor probe or resolution
\* lookup) has made at most 3 attempts, none after a success, with a sleep
\* of 0.5 s between any two consecutive attempts, and its file is marked
\* failed only after 3 failed attempts.
C30_RetryWithBackoff ==
    /\ Cardinality(AttemptsAt) <= max_retries
    /\ \A k \in AttemptsAt :
          probe_log[k].outcome \in {"probe", "info"} => k = Len(probe_log)
    /\ \A k \in AttemptsAt :
          k > 1 => probe_log[k - 1] = Slept(Backoff)
    /\ (/\ probe_pc = "idle"
        /\ probe_op # NoProbe
        /\ \/ is_valid[probe_op.file] = "invalid"
           \/ resolution_info[probe_op.file] = "failed")
          => /\ Cardinality(AttemptsAt) = max_retries
             /\ \A k \in AttemptsAt : probe_log[k].outcome \in {"error", "raise"}

\* The lines of the stream that hold an error keyword.
KeywordLines == {k \in 1..Len(stderr_lines) : stderr_lines[k].keyword}

\* C31: the reason of a non-zero exit is the last line of the status stream
\* that holds an error keyword if there is one, and otherwise a truncated
\* tail of the stream.
C31_ReasonLastKeywordLine ==
    error_reason # NoReason =>
        IF KeywordLines # {}
          THEN \E k \in KeywordLines :
                  /\ \A g \in KeywordLines : g <= k
                  /\ error_reason = Text(LineStart(stderr_lines, k),
                                         LineEnd(stderr_lines, k), FALSE)
          ELSE /\ error_reason.kind = "text"
               /\ error_reason.last = StreamLen(stderr_lines)
               /\ error_reason.last - error_reason.first < ReasonChars

\* Two progress values are never queued less than 100 ms apart.
PutsSpaced ==
    \A k \in 1..(Len(put_times) - 1) : put_times[k + 1] - put_times[k] >= Throttle

\* The value is min(100, elapsed / duration * 100) of a parsed status line.
FromStatusLine(v) == \E e \in parsed : v = ProgressPercent(e, duration)

\* C32 as stated: with a known duration every value given to the sink lies
\* in [0,100] and is min(100, elapsed/duration*100) for the elapsed time of
\* some parsed status line, and two queued updates are never less than
\* 100 ms apart.
C32_EmittedFromStatusLines ==
    /\ duration > 0 =>
          \A x \in emitted : x.v \in 0..100 /\ FromStatusLine(x.v)
    /\ PutsSpaced

\* C32, amended: with a known duration every value given to the sink lies
\* in [0,100]; a value taken from the queue is min(100, elapsed/duration*100)
\* of a parsed status line, a value shown again on an idle wait window is
\* the last such value or the initial 0, and the value sent after a zero
\* exit is 100; two queued updates are never less than 100 ms apart.
C32_EmittedClampedAndThrottled ==
    /\ duration > 0 =>
          \A x \in emitted :
             /\ x.v \in 0..100
             /\ x.at = "update" => FromStatusLine(x.v)
             /\ x.at = "idle" => (x.v = 0 \/ FromStatusLine(x.v))
             /\ x.at = "complete" => x.v = 100
    /\ PutsSpaced

\* Two values were queued 100 ms or more apart, a status line in between
\* was dropped, and a parsed value, the idle 0 and the final 100 reached
\* the sink.
C32_Witness ==
    /\ duration > 0
    /\ Len(put_times) = 2
    /\ lines_read = 3
    /\ Emitted(0, "idle") \in emitted
    /\ Emitted(50, "update") \in emitted
    /\ Emitted(100, "complete") \in emitted

C34_FailedPathsAreTheFailures ==
    /\ [](LET paths == processing_stats.failed_file_paths IN
            /\ Len(paths) = processing_stats.failed_files
            /\ \A k \in 1..(Len(paths) - 1) : paths[k] < paths[k + 1]
            /\ \A k \in 1..Len(paths) :
                  /\ paths[k] \in Jobs
                  /\ results[paths[k]] > 0
                  /\ counted[paths[k]] > 0)
    /\ [][IF pc = "stats" /\ pc' = "complete"
            THEN processing_stats'.failed_file_paths
                    = IF result.success
                        THEN processing_stats.failed_file_paths
                        ELSE Append(processing_stats.failed_file_paths, i)
            ELSE pc # "idle" =>
                    processing_stats'.failed_file_paths
                        = processing_stats.failed_file_paths]_vars

\* A batch of two in which the first job succeeded and the second failed:
\* the list holds the second job only.
C34_Witness ==
    /\ pc = "returned"
    /\ n = 2
    /\ processing_stats.processed_files = 1
    /\ processing_stats.failed_files = 1
    /\ processing_stats.failed_file_paths = <<2>>

\* A usable GPU of the vendor is in the detected list.
HasUsable(vendor) ==
    \E k \in 1..Len(gpus) : gpus[k].vendor = vendor /\ gpus[k].usable

\* C35: whatever the order of the detected list, the recommendation is
\* NVENC if a usable NVIDIA GPU is present, else AMF if a usable AMD GPU is
\* present, else QSV if a usable Intel GPU is present, else libx265 without
\* hardware acceleration.
C35_VendorPriority ==
    recommended_encoder # NoRecommendations =>
        recommended_encoder =
            IF HasUsable("NVIDIA") THEN [hw_accel |-> "cuda", video_codec |-> "hevc_nvenc"]
            ELSE IF HasUsable("AMD") THEN [hw_accel |-> "auto", video_codec |-> "hevc_amf"]
            ELSE IF HasUsable("Intel") THEN [hw_accel |-> "qsv", video_codec |-> "hevc_qsv"]
            ELSE [hw_accel |-> "none", video_codec |-> "libx265"]

\* encode_single_file has returned a failed result for the current job
\* without having launched an encoder.
FailedBeforeLaunch ==
    /\ pc \in {"stats", "complete"}
    /\ ~result.success
    /\ spawned[i] = 0
    /\ result.error \in PreLaunchErrors \cup {"input_missing"}

\* C36: a job that fails before the encoder is launched leaves the file
\* system as it was: a file that was at the output path when the job
\* failed is still there afterwards.
C36_PreLaunchFailureKeepsOutput ==
    FailedBeforeLaunch => (out_seen.exists => outFile[i] = out_seen)

\* The display right after initialize_session of a batch.
BatchJustEntered == batch_pc = "loop" /\ batch_i = 1 /\ ~batch_cancel_event

\* C37: every encode_batch call on the same encoder starts from clean
\* per-batch state (cancel flag, coordinator counters, the display's
\* counters and its cancel-scheduled indicator); the display's
\* completed + failed never exceeds its total_files, and the summary says
\* 'cancelled' only if the stats of that batch are cancelled.
C37_BatchStartsClean ==
    /\ BatchJustEntered =>
          /\ batch_stats.processed_files = 0
          /\ batch_stats.failed_files = 0
          /\ progress_display.completed_files = 0
          /\ progress_display.failed_files = 0
          /\ ~progress_display.cancel_scheduled
    /\ progress_display.completed_files + progress_display.failed_files
          <= progress_display.total_files
    /\ (batch_pc = "idle" /\ final_summary.shown /\ final_summary.cancelled)
          => batch_stats.cancelled

\* C38: in the stats encode_batch returns, cancelled implies that at least
\* one job was not attempted (processed + failed < total): a cancel that
\* arrives while the last job runs does not mark a fully processed batch
\* cancelled.
C38_CancelledLeavesJobsOut ==
    (pc = "returned" /\ processing_stats.cancelled)
        => Done < processing_stats.total_files

\* C38 as the code has it: the returned stats carry cancelled exactly when
\* 'q' was read before the finally clause stopped the listener; a batch
\* that left jobs out is cancelled, and a fully processed batch is
\* cancelled too when 'q' came during or after its last job.
C38_CancelledIffRequested ==
    pc = "returned" =>
        /\ processing_stats.cancelled <=> (cancelAt.phase # "never")
        /\ Done < processing_stats.total_files => processing_stats.cancelled

\* 'q' came while the encoder of the last job ran; every job was done and
\* the stats are cancelled.
C38_Witness ==
    /\ pc = "returned"
    /\ processing_stats.cancelled
    /\ Done = processing_stats.total_files
    /\ cancelAt = [phase |-> "encoding", k |-> n - 1]

\* C39: for every source with positive width and height that needs
\* resizing, both target dimensions are at least 2, so the scale filter has
\* no zero dimension and the aspect ratio of the target divides by a
\* non-zero height -- a 10000x1 source included.
C39_TargetDimensionsPositive ==
    (needs_resizing(current_resolution) /\ (res_info.valid \/ res_info.raised)) =>
        /\ ~res_info.raised
        /\ res_info.target.width >= 2
        /\ res_info.target.height >= 2
        /\ res_info.scale_filter.set
        /\ res_info.scale_filter.width >= 2
        /\ res_info.scale_filter.height >= 2

\* C40: whenever the supervision loop ends without raising ('done' taken
\* from the queue, or a queue wait that timed out with the process gone),
\* the encoder has already exited: process.wait(timeout=30) finds it
\* exited, and no job ever fails with the wait's timeout.
C40_WaitFindsProcessExited ==
    /\ pc = "wait" => proc \in {"exit0", "exit1"}
    /\ result.error # "wait_timeout"

\* The loop was left on 'done': the reader has finished, the queue is
\* drained and the encoder has exited.
C40_Witness ==
    /\ pc = "wait"
    /\ reader = "done"
    /\ progress_queue = <<>>
    /\ proc = "exit1"

====
